---- MODULE Spec2Model ----
(***************************************************************************)
(* Persistent TTL cache of the OpenRouteService integration                *)
(* (custom_components/openrouteservice/cache.py): PersistentCache and its  *)
(* GeocodingCache specialisation, with the on-disk JSON document and the   *)
(* wall clock as explicit state.                                           *)
(*                                                                         *)
(* Python values are pairs <<type, payload>>; a payload is a sequence of   *)
(* tokens (a str is the sequence of its characters, a float is the token   *)
(* of its repr).  The wall clock counts ticks, TicksPerDay ticks to a day. *)
(***************************************************************************)
EXTENDS Integers, Sequences, FiniteSets, TLC

VARIABLES
    _cache,     \* self._cache: key -> [value, timestamp]
    ttl_days,   \* self.ttl_days
    disk,       \* the file at self.cache_path: [exists, valid, text]
    now,        \* datetime.now(), in ticks
    lastOp,     \* the operation that ran last (see Op)
    result,     \* what the last operation returned
    written,    \* history: key -> the set call that wrote its entry
    diskFaults, \* whether writes to the file can fail
    keyIn,      \* key derivation: the two arguments
    keyOut,     \* key derivation: <<key(a, b), key(b, a)>>
    hass_data,  \* hass.data[DOMAIN]: the entries, in insertion order, and
                \* first the unloaded entry a handler in flight still holds
    files,      \* the files of the configuration directory: name -> file
    services,   \* the services registered for DOMAIN
    call,       \* the handle_plan_route call in flight, or the last one
    hassOp,     \* the integration's operation that ran last
    tasks,      \* the handlers on the event loop, each at a statement
    running     \* the handler the event loop is running, or "none"

vars == <<_cache, ttl_days, disk, now, lastOp, result, written, diskFaults, keyIn, keyOut,
          hass_data, files, services, call, hassOp, tasks, running>>

hassVars == <<hass_data, files, services, call, hassOp>>

cacheVars == <<_cache, ttl_days, disk, now, lastOp, result, written, diskFaults>>

keyVars == <<keyIn, keyOut>>

taskVars == <<tasks, running>>

-----------------------------------------------------------------------------
(* Bounds *)

MaxTime == 4

TicksPerDay == 2

MaxTtl == 2

MaxLen == 2

-----------------------------------------------------------------------------
(* Python values *)

None == <<"None", <<>>>>

PyStr(s) == <<"str", s>>

PyList(p) == <<"list", p>>

PyTuple(p) == <<"tuple", p>>

PyDict(p) == <<"dict", p>>

\* An exception that leaves the call
Raised(exception) == <<"raise", <<exception>>>>

raises(x) == x[1] = "raise"

\* list(x) and tuple(x) of a sequence value
list(x) == <<"list", x[2]>>

tuple(x) == <<"tuple", x[2]>>

\* bool(x): None and empty str/list/tuple are falsy
truthy(x) == x[1] # "None" /\ x[2] # <<>>

RECURSIVE join(_, _)
\* sep.join(parts)
join(sep, parts) ==
    IF parts = <<>> THEN <<>>
    ELSE IF Len(parts) = 1 THEN parts[1]
    ELSE parts[1] \o sep \o join(sep, Tail(parts))

\* str(arg): a str is itself, a tuple prints as (a, b), a list as [a, b]
str(arg) ==
    IF arg[1] = "str" THEN arg[2]
    ELSE IF arg[1] = "tuple"
        THEN <<"(">> \o join(<<",", " ">>, [i \in 1..Len(arg[2]) |-> <<arg[2][i]>>]) \o <<")">>
    ELSE IF arg[1] = "list"
        THEN <<"[">> \o join(<<",", " ">>, [i \in 1..Len(arg[2]) |-> <<arg[2][i]>>]) \o <<"]">>
    ELSE <<"N", "o", "n", "e">>

\* str.lower() on one character
lowerChar(c) ==
    IF c = "A" THEN "a" ELSE IF c = "B" THEN "b" ELSE c

\* address.lower()
lower(s) == [i \in 1..Len(s) |-> lowerChar(s[i])]

-----------------------------------------------------------------------------
(* datetime *)

\* datetime.isoformat(): the date and the time of day, as text
isoformat(t) == <<t \div TicksPerDay, t % TicksPerDay>>

\* datetime.fromisoformat() raises ValueError on text of another shape
parses(ts) == Len(ts) = 2

fromisoformat(ts) == ts[1] * TicksPerDay + ts[2]

timedelta(days) == days * TicksPerDay

-----------------------------------------------------------------------------
(* json *)

\* json.dump of one value: str -> string, list and tuple -> array,
\* dict -> object, None -> null
json_dump_value(v) ==
    IF v[1] = "str" THEN <<"string", v[2]>>
    ELSE IF v[1] \in {"list", "tuple"} THEN <<"array", v[2]>>
    ELSE IF v[1] = "dict" THEN <<"object", v[2]>>
    ELSE <<"null", <<>>>>

\* json.load of one value: string -> str, array -> list, object -> dict,
\* null -> None
json_load_value(j) ==
    IF j[1] = "string" THEN <<"str", j[2]>>
    ELSE IF j[1] = "array" THEN <<"list", j[2]>>
    ELSE IF j[1] = "object" THEN <<"dict", j[2]>>
    ELSE None

\* json.dump(self._cache, f): the document written to the file, each entry
\* with the fields it has
json_dump(cache) ==
    [k \in DOMAIN cache |->
        [f \in DOMAIN cache[k] |->
            IF f = "value" THEN json_dump_value(cache[k][f])
            ELSE <<"string", cache[k][f]>>]]

\* json.load(f) of a well-formed document
json_load(doc) ==
    [k \in DOMAIN doc |->
        [f \in DOMAIN doc[k] |->
            IF f = "value" THEN json_load_value(doc[k][f])
            ELSE doc[k][f][2]]]

EmptyStore == [k \in {} |-> None]

\* The file at cache_path: absent, a well-formed document, or malformed text
NoFile == [exists |-> FALSE, valid |-> FALSE, text |-> EmptyStore]

File(doc) == [exists |-> TRUE, valid |-> TRUE, text |-> doc]

Malformed == [exists |-> TRUE, valid |-> FALSE, text |-> EmptyStore]

-----------------------------------------------------------------------------
(* PersistentCache *)

\* hashlib.sha256(...).hexdigest(): one digest per byte string
sha256(key_string) == [digest |-> key_string]

\* Mutant: the key is derived from the first three arguments only
_make_key_three_args(args) ==
    sha256(join(<<"|">>, [i \in 1..(IF Len(args) < 3 THEN Len(args) ELSE 3) |-> str(args[i])]))

\* Mutant: the arguments joined without a delimiter
_make_key_no_delimiter(args) ==
    sha256(join(<<>>, [i \in 1..Len(args) |-> str(args[i])]))

_make_key(args) ==
    sha256(join(<<"|">>, [i \in 1..Len(args) |-> str(args[i])]))

\* Mutant: the parsed document is dropped and the store left empty
_load_cache_discards(d) == EmptyStore

_load_cache(d) ==
    IF ~d.exists THEN EmptyStore
    ELSE IF ~d.valid THEN EmptyStore
    ELSE json_load(d.text)

\* Mutant: a JSONDecodeError of json.load leaves _load_cache
_load_cache_raises_on_malformed(d) == d.exists /\ ~d.valid

\* Whether _load_cache raises: its except clause takes every Exception
_load_cache_raises(d) == FALSE

\* The ways one _save_cache call can end: the write succeeds, mkdir/open raises
\* (file untouched), or json.dump raises after open(..., "w") truncated the file
SaveOutcomes == IF diskFaults THEN {"ok", "open_fails", "dump_fails"} ELSE {"ok"}

\* Mutant: the file is opened for appending, so malformed content stays
_save_cache_appends(cache, d, outcome) ==
    IF outcome = "ok"
    THEN IF d.exists /\ ~d.valid THEN Malformed ELSE File(json_dump(cache))
    ELSE IF outcome = "open_fails" THEN d
    ELSE Malformed

_save_cache(cache, d, outcome) ==
    IF outcome = "ok" THEN File(json_dump(cache))
    ELSE IF outcome = "open_fails" THEN d
    ELSE Malformed

\* Mutant: a failed write leaves _save_cache as an OSError
_save_cache_raises_on_failure(outcome) == outcome # "ok"

\* Whether _save_cache raises: its except clause takes every Exception
_save_cache_raises(outcome) == FALSE

\* Mutant: an entry is still fresh at the very instant its TTL ends
_is_expired_strict(self_ttl_days, timestamp) ==
    IF self_ttl_days = 0 THEN TRUE
    ELSE IF ~parses(timestamp) THEN TRUE
    ELSE now > fromisoformat(timestamp) + timedelta(self_ttl_days)

\* Mutant: a timestamp that does not parse counts as fresh
_is_expired_keeps_unparseable(self_ttl_days, timestamp) ==
    IF self_ttl_days = 0 THEN TRUE
    ELSE IF ~parses(timestamp) THEN FALSE
    ELSE now >= fromisoformat(timestamp) + timedelta(self_ttl_days)

_is_expired(self_ttl_days, timestamp) ==
    IF self_ttl_days = 0 THEN TRUE
    ELSE IF ~parses(timestamp) THEN TRUE
    ELSE now >= fromisoformat(timestamp) + timedelta(self_ttl_days)

Without(cache, keys) == [k \in DOMAIN cache \ keys |-> cache[k]]

\* The instance the calls below are made on
Self == [ttl_days |-> ttl_days, _cache |-> _cache]

\* Mutant: an expired entry is dropped from memory without _save_cache
get_evicts_in_memory(args) ==
    IF ttl_days = 0 THEN [ret |-> None, cache |-> _cache, saves |-> 0]
    ELSE
        LET key == _make_key(args) IN
        IF key \notin DOMAIN _cache
            THEN [ret |-> None, cache |-> _cache, saves |-> 0]
        ELSE IF _is_expired(ttl_days, _cache[key].timestamp)
            THEN [ret |-> None, cache |-> Without(_cache, {key}), saves |-> 0]
        ELSE [ret |-> _cache[key].value, cache |-> _cache, saves |-> 0]

\* get(*args): what it returns, the store it leaves, and its _save_cache
\* calls; entry["timestamp"] and entry["value"] raise KeyError on an entry
\* without the field
PersistentCache_get(self, args) ==
    IF self.ttl_days = 0 THEN [ret |-> None, cache |-> self._cache, saves |-> 0]
    ELSE
        LET key == _make_key(args) IN
        IF key \notin DOMAIN self._cache
            THEN [ret |-> None, cache |-> self._cache, saves |-> 0]
        ELSE IF "timestamp" \notin DOMAIN self._cache[key]
            THEN [ret |-> Raised("KeyError"), cache |-> self._cache, saves |-> 0]
        ELSE IF _is_expired(self.ttl_days, self._cache[key].timestamp)
            THEN [ret |-> None, cache |-> Without(self._cache, {key}), saves |-> 1]
        ELSE IF "value" \notin DOMAIN self._cache[key]
            THEN [ret |-> Raised("KeyError"), cache |-> self._cache, saves |-> 0]
        ELSE [ret |-> self._cache[key].value, cache |-> self._cache, saves |-> 0]

\* Mutant: a hit restarts the clock of the entry it returns
get_refreshes_timestamp(args) ==
    LET r == PersistentCache_get(Self, args)
        key == _make_key(args)
    IN  IF r.ret = None \/ raises(r.ret) THEN r
        ELSE [r EXCEPT !.cache = [@ EXCEPT ![key].timestamp = isoformat(now)],
                       !.saves = 1]

\* Mutant: a miss writes the store to the file
get_saves_on_miss(args) ==
    LET r == PersistentCache_get(Self, args) IN
    [r EXCEPT !.saves = IF r.ret = None THEN 1 ELSE @]

\* Mutant: get removes every expired entry of the store, not only its own
get_sweeps_all(args) ==
    LET r == PersistentCache_get(Self, args)
        expired_keys ==
            {k \in DOMAIN r.cache : _is_expired(ttl_days, r.cache[k].timestamp)}
    IN  IF ttl_days = 0 \/ expired_keys = {} THEN r
        ELSE [r EXCEPT !.cache = Without(r.cache, expired_keys), !.saves = 1]

get(args) == PersistentCache_get(Self, args)

\* Mutant: set without the disabled-cache check
set_when_disabled(value, args) ==
    LET key == _make_key(args) IN
    [ret |-> None,
     cache |-> (key :> [value |-> value, timestamp |-> isoformat(now)]) @@ _cache,
     saves |-> 1]

\* Mutant: set writes the entry to memory without _save_cache
set_in_memory(value, args) ==
    IF ttl_days = 0 THEN [ret |-> None, cache |-> _cache, saves |-> 0]
    ELSE
        LET key == _make_key(args) IN
        [ret |-> None,
         cache |-> (key :> [value |-> value, timestamp |-> isoformat(now)]) @@ _cache,
         saves |-> 0]

\* Mutant: set replaces the value of an existing entry and keeps its timestamp
set_keeps_timestamp(value, args) ==
    IF ttl_days = 0 THEN [ret |-> None, cache |-> _cache, saves |-> 0]
    ELSE
        LET key == _make_key(args) IN
        [ret |-> None,
         cache |-> (key :> [value |-> value,
                            timestamp |-> IF key \in DOMAIN _cache
                                          THEN _cache[key].timestamp
                                          ELSE isoformat(now)]) @@ _cache,
         saves |-> 1]

\* Mutant: set keeps the entry a key already has (setdefault)
set_keeps_existing(value, args) ==
    IF ttl_days = 0 THEN [ret |-> None, cache |-> _cache, saves |-> 0]
    ELSE
        LET key == _make_key(args) IN
        [ret |-> None,
         cache |-> _cache @@ (key :> [value |-> value, timestamp |-> isoformat(now)]),
         saves |-> 1]

\* Mutant: set on an instance without the disabled-cache check
PersistentCache_set_when_disabled(self, value, args) ==
    LET key == _make_key(args) IN
    [ret |-> None,
     cache |-> (key :> [value |-> value, timestamp |-> isoformat(now)]) @@ self._cache,
     saves |-> 1]

\* set(value, *args)
PersistentCache_set(self, value, args) ==
    IF self.ttl_days = 0 THEN [ret |-> None, cache |-> self._cache, saves |-> 0]
    ELSE
        LET key == _make_key(args) IN
        [ret |-> None,
         cache |-> (key :> [value |-> value, timestamp |-> isoformat(now)])
                        @@ self._cache,
         saves |-> 1]

set(value, args) == PersistentCache_set(Self, value, args)

\* Mutant: clear empties the store without _save_cache
clear_in_memory == [ret |-> None, cache |-> EmptyStore, saves |-> 0]

\* clear()
clear == [ret |-> None, cache |-> EmptyStore, saves |-> 1]

\* Mutant: the sweep runs under the TTL the cache had before the update
update_ttl_sweeps_old_ttl(new_ttl_days) ==
    IF new_ttl_days = 0 THEN clear
    ELSE
        LET expired_keys ==
                {key \in DOMAIN _cache : _is_expired(ttl_days, _cache[key].timestamp)}
        IN [ret |-> None,
            cache |-> Without(_cache, expired_keys),
            saves |-> IF expired_keys # {} THEN 1 ELSE 0]

\* Mutant: a TTL of 0 disables the cache without clearing it
update_ttl_keeps_on_disable(new_ttl_days) ==
    IF new_ttl_days = 0 THEN [ret |-> None, cache |-> _cache, saves |-> 0]
    ELSE
        LET expired_keys ==
                {key \in DOMAIN _cache : _is_expired(new_ttl_days, _cache[key].timestamp)}
        IN [ret |-> None,
            cache |-> Without(_cache, expired_keys),
            saves |-> IF expired_keys # {} THEN 1 ELSE 0]

\* Mutant: the survivors of the sweep are stamped with the time of the update
update_ttl_resets_clock(new_ttl_days) ==
    IF new_ttl_days = 0 THEN clear
    ELSE
        LET expired_keys ==
                {key \in DOMAIN _cache : _is_expired(new_ttl_days, _cache[key].timestamp)}
        IN [ret |-> None,
            cache |-> [k \in DOMAIN _cache \ expired_keys |->
                        [_cache[k] EXCEPT !.timestamp = isoformat(now)]],
            saves |-> 1]

\* update_ttl(ttl_days), after self.ttl_days = ttl_days; entry["timestamp"]
\* raises KeyError on an entry without the field
PersistentCache_update_ttl(self, new_ttl_days) ==
    IF new_ttl_days = 0 THEN clear
    ELSE IF \E key \in DOMAIN self._cache : "timestamp" \notin DOMAIN self._cache[key]
        THEN [ret |-> Raised("KeyError"), cache |-> self._cache, saves |-> 0]
    ELSE
        LET expired_keys ==
                {key \in DOMAIN self._cache :
                    _is_expired(new_ttl_days, self._cache[key].timestamp)}
        IN [ret |-> None,
            cache |-> Without(self._cache, expired_keys),
            saves |-> IF expired_keys # {} THEN 1 ELSE 0]

update_ttl(new_ttl_days) == PersistentCache_update_ttl(Self, new_ttl_days)

-----------------------------------------------------------------------------
(* GeocodingCache *)

\* Mutant: the read path does not lower-case the address
get_coordinates_case_sensitive(address) ==
    LET r == get(<<PyStr(address)>>) IN
    [r EXCEPT !.ret = IF truthy(r.ret) THEN tuple(r.ret) ELSE None]

GeocodingCache_get_coordinates(self, address) ==
    LET r == PersistentCache_get(self, <<PyStr(lower(address))>>) IN
    IF raises(r.ret) THEN r
    ELSE [r EXCEPT !.ret = IF truthy(r.ret) THEN tuple(r.ret) ELSE None]

get_coordinates(address) ==
    LET r == get(<<PyStr(lower(address))>>) IN
    IF raises(r.ret) THEN r
    ELSE [r EXCEPT !.ret = IF truthy(r.ret) THEN tuple(r.ret) ELSE None]

GeocodingCache_set_coordinates(self, address, coords) ==
    PersistentCache_set(self, list(coords), <<PyStr(lower(address))>>)

set_coordinates(address, coords) ==
    set(list(coords), <<PyStr(lower(address))>>)

-----------------------------------------------------------------------------
(* RouteCache *)

RouteCache_get_route(self, origin, destination, profile, units) ==
    PersistentCache_get(self, <<origin, destination, PyStr(profile), PyStr(units)>>)

get_route(origin, destination, profile, units) ==
    get(<<origin, destination, PyStr(profile), PyStr(units)>>)

RouteCache_set_route(self, route, origin, destination, profile, units) ==
    PersistentCache_set(self, route, <<origin, destination, PyStr(profile), PyStr(units)>>)

set_route(route, origin, destination, profile, units) ==
    set(route, <<origin, destination, PyStr(profile), PyStr(units)>>)

-----------------------------------------------------------------------------
(* Inputs *)

TTLs == 0..MaxTtl

\* Argument lists of the calls made on PersistentCache directly
ArgLists == {<<PyStr(<<"a", "b">>)>>, <<PyStr(<<"c">>)>>}

Values == {PyStr(<<"v">>), PyList(<<"1.5", "2.5">>)}

Addresses == {<<"A", "b">>, <<"a", "b">>, <<"c">>}

Coords == {PyTuple(<<"13.369", "52.525">>)}

\* Route lookups <<origin, destination, profile, units>>: one lookup and the
\* four that differ from it in one component
Berlin == PyTuple(<<"13.369", "52.525">>)

Alex == PyTuple(<<"13.404", "52.52">>)

RouteTuples ==
    {<<Berlin, Alex, <<"driving-car">>, <<"km">>>>,
     <<Alex, Alex, <<"driving-car">>, <<"km">>>>,
     <<Berlin, Berlin, <<"driving-car">>, <<"km">>>>,
     <<Berlin, Alex, <<"cycling-regular">>, <<"km">>>>,
     <<Berlin, Alex, <<"driving-car">>, <<"mi">>>>}

Routes == {PyDict(<<"5000", "300">>), PyDict(<<"4500", "600">>)}

Alphabet == {"a", "b", "|"}

RECURSIVE StringsOfLen(_)
StringsOfLen(n) ==
    IF n = 0 THEN {<<>>}
    ELSE {<<c>> \o s : c \in Alphabet, s \in StringsOfLen(n - 1)}

Strings == UNION {StringsOfLen(n) : n \in 0..MaxLen}

-----------------------------------------------------------------------------
(* Operations on one cache instance *)

\* The record of one operation: its name and arguments, how many times it
\* called _save_cache and how that call ended, the timestamps of the entries
\* it removed from the store, and whether it directly follows a write of the
\* key it reads, the keys whose entry it replaced by a different one, and
\* what the file was when it began, and for update_ttl the TTL it replaced
Op(op, args, saves, evicted, after_set, outcome, replaced, file_before, ttl_before) ==
    [op |-> op, args |-> args, saves |-> saves, evicted |-> evicted,
     after_set |-> after_set, outcome |-> outcome, replaced |-> replaced,
     file_before |-> file_before, ttl_before |-> ttl_before]

NoOp(op) == Op(op, <<>>, 0, EmptyStore, FALSE, "none", {}, "any", 0)

FileState(d) ==
    IF ~d.exists THEN "absent" ELSE IF d.valid THEN "document" ELSE "malformed"

Stamps(cache) ==
    [k \in DOMAIN cache |->
        IF "timestamp" \in DOMAIN cache[k] THEN cache[k].timestamp ELSE <<>>]

\* The effect r of one call: the store it leaves, the file after its
\* _save_cache calls, and what it returns
Effect(r, op, args, after_set) ==
    /\ _cache' = r.cache
    /\ \E outcome \in (IF r.saves > 0 THEN SaveOutcomes ELSE {"none"}) :
        /\ disk' = IF r.saves > 0 THEN _save_cache(r.cache, disk, outcome) ELSE disk
        /\ result' = IF r.saves > 0 /\ _save_cache_raises(outcome)
                     THEN Raised("OSError")
                     ELSE r.ret
        /\ lastOp' = Op(op, args, r.saves,
                        Stamps(Without(_cache, DOMAIN r.cache)),
                        after_set, outcome,
                        {k \in DOMAIN _cache \cap DOMAIN r.cache :
                            r.cache[k] # _cache[k]},
                        IF r.saves > 0 THEN FileState(disk) ELSE "any",
                        IF op = "update_ttl" THEN ttl_days ELSE 0)

\* History of the entries: the call that wrote each one
Surviving(w, cache) == [k \in DOMAIN w \cap DOMAIN cache |-> w[k]]

Wrote(via, args, value) ==
    [via |-> via, args |-> args, value |-> value, at |-> now, loaded |-> FALSE]

\* The integration before any config entry is set up
GEOCODING_CACHE_FILE == ".openrouteservice_geocoding_cache.json"

ROUTES_CACHE_FILE == ".openrouteservice_routes_cache.json"

CacheFiles == {GEOCODING_CACHE_FILE, ROUTES_CACHE_FILE}

NoPrev == [args |-> <<>>, ok |-> FALSE, fresh |-> FALSE]

\* No handle_plan_route call has been made
NoCall ==
    [pc |-> "idle", origin |-> <<>>, destination |-> <<>>, profile |-> <<>>,
     origin_coords |-> None, dest_coords |-> None, route |-> None,
     error |-> "", cause |-> "", api_calls |-> 0, api_failed |-> FALSE,
     fresh |-> FALSE, prev |-> NoPrev, evicted |-> {}, stored |-> {},
     legs_stored |-> {}, meanwhile |-> {}]

\* The operation that ran last, with what the properties read of it: the
\* cache_type of a clear_cache call, the TTLs an options update replaced
HassOp(op, args) == [op |-> op, args |-> args]

\* No handler is on the event loop
TaskInit ==
    /\ tasks = <<>>
    /\ running = "none"

HassInit ==
    /\ hass_data = <<>>
    /\ files = [path \in CacheFiles |-> NoFile]
    /\ services = {}
    /\ call = NoCall
    /\ hassOp = HassOp("none", <<>>)

Init ==
    /\ ttl_days \in TTLs
    /\ disk = NoFile
    /\ _cache = _load_cache(disk)
    /\ now = 0
    /\ lastOp = NoOp("init")
    /\ result = None
    /\ written = EmptyStore
    /\ diskFaults = FALSE
    /\ keyIn = <<<<>>, <<>>>>
    /\ keyOut = <<>>
    /\ HassInit
    /\ TaskInit

\* Mutant: a cache constructed with TTL 0 starts empty
Restart_empty_when_disabled(ttl) ==
    /\ ttl_days' = ttl
    /\ _cache' = IF ttl = 0 THEN EmptyStore ELSE _load_cache(disk)
    /\ lastOp' = NoOp("init")
    /\ result' = None
    /\ written' = [k \in DOMAIN written |-> [written[k] EXCEPT !.loaded = TRUE]]
    /\ UNCHANGED <<disk, now, diskFaults, keyVars, hassVars, taskVars>>

\* PersistentCache(hass, cache_file, ttl) on the same path: a restart
Restart(ttl) ==
    /\ ttl_days' = ttl
    /\ _cache' = _load_cache(disk)
    /\ lastOp' = NoOp("init")
    /\ result' = IF _load_cache_raises(disk) THEN Raised("JSONDecodeError") ELSE None
    /\ written' = [k \in DOMAIN written |-> [written[k] EXCEPT !.loaded = TRUE]]
    /\ UNCHANGED <<disk, now, diskFaults, keyVars, hassVars, taskVars>>

Get(args) ==
    /\ Effect(get(args), "get", args, lastOp.op = "set" /\ lastOp.args = args)
    /\ written' = Surviving(written, _cache')
    /\ UNCHANGED <<ttl_days, now, diskFaults, keyVars, hassVars, taskVars>>

Set(value, args) ==
    /\ Effect(set(value, args), "set", args, FALSE)
    /\ written' =
            IF ttl_days = 0 THEN written
            ELSE (_make_key(args) :> Wrote("set", args, value)) @@ written
    /\ UNCHANGED <<ttl_days, now, diskFaults, keyVars, hassVars, taskVars>>

Clear ==
    /\ Effect(clear, "clear", <<>>, FALSE)
    /\ written' = EmptyStore
    /\ UNCHANGED <<ttl_days, now, diskFaults, keyVars, hassVars, taskVars>>

UpdateTtl(new_ttl_days) ==
    /\ ttl_days' = new_ttl_days
    /\ Effect(update_ttl(new_ttl_days), "update_ttl", <<>>, FALSE)
    /\ written' = Surviving(written, _cache')
    /\ UNCHANGED <<now, diskFaults, keyVars, hassVars, taskVars>>

GetCoordinates(address) ==
    /\ Effect(get_coordinates(address), "get_coordinates", <<PyStr(address)>>,
              /\ lastOp.op = "set_coordinates"
              /\ lower(lastOp.args[1][2]) = lower(address))
    /\ written' = Surviving(written, _cache')
    /\ UNCHANGED <<ttl_days, now, diskFaults, keyVars, hassVars, taskVars>>

SetCoordinates(address, coords) ==
    /\ Effect(set_coordinates(address, coords), "set_coordinates",
              <<PyStr(address)>>, FALSE)
    /\ written' =
            IF ttl_days = 0 THEN written
            ELSE (_make_key(<<PyStr(lower(address))>>) :>
                    Wrote("set_coordinates", <<PyStr(address)>>, coords)) @@ written
    /\ UNCHANGED <<ttl_days, now, diskFaults, keyVars, hassVars, taskVars>>

GetRoute(t) ==
    /\ Effect(get_route(t[1], t[2], t[3], t[4]), "get_route", t, FALSE)
    /\ written' = Surviving(written, _cache')
    /\ UNCHANGED <<ttl_days, now, diskFaults, keyVars, hassVars, taskVars>>

SetRoute(route, t) ==
    /\ Effect(set_route(route, t[1], t[2], t[3], t[4]), "set_route", t, FALSE)
    /\ written' =
            IF ttl_days = 0 THEN written
            ELSE (_make_key(<<t[1], t[2], PyStr(t[3]), PyStr(t[4])>>) :>
                    Wrote("set_route", t, route)) @@ written
    /\ UNCHANGED <<ttl_days, now, diskFaults, keyVars, hassVars, taskVars>>

\* The wall clock advances
Tick ==
    /\ now < MaxTime
    /\ now' = now + 1
    /\ lastOp' = NoOp("tick")
    /\ result' = None
    /\ UNCHANGED <<_cache, ttl_days, disk, written, diskFaults, keyVars, hassVars, taskVars>>

Next ==
    \/ \E ttl \in TTLs : Restart(ttl)
    \/ \E args \in ArgLists : Get(args)
    \/ \E value \in Values, args \in ArgLists : Set(value, args)
    \/ Clear
    \/ \E n \in TTLs : UpdateTtl(n)
    \/ \E address \in Addresses : GetCoordinates(address)
    \/ \E address \in Addresses, coords \in Coords : SetCoordinates(address, coords)
    \/ Tick

Spec == Init /\ [][Next]_vars

-----------------------------------------------------------------------------
(* A RouteCache instance *)

NextRoute ==
    \/ \E t \in RouteTuples : GetRoute(t)
    \/ \E route \in Routes, t \in RouteTuples : SetRoute(route, t)
    \/ \E n \in TTLs : UpdateTtl(n)

SpecRoute == Init /\ [][NextRoute]_vars

-----------------------------------------------------------------------------
(* One instance on a disk whose writes can fail *)

NextCore ==
    \/ \E ttl \in TTLs : Restart(ttl)
    \/ \E args \in ArgLists : Get(args)
    \/ \E value \in Values, args \in ArgLists : Set(value, args)
    \/ Clear
    \/ \E n \in TTLs : UpdateTtl(n)
    \/ Tick

InitFault ==
    /\ ttl_days \in TTLs
    /\ disk = NoFile
    /\ _cache = _load_cache(disk)
    /\ now = 0
    /\ lastOp = NoOp("init")
    /\ result = None
    /\ written = EmptyStore
    /\ diskFaults = TRUE
    /\ keyIn = <<<<>>, <<>>>>
    /\ keyOut = <<>>
    /\ HassInit
    /\ TaskInit

NextFault ==
    \/ \E args \in ArgLists : Get(args)
    \/ \E args \in ArgLists : Set(PyList(<<"1.5", "2.5">>), args)
    \/ Clear
    \/ \E n \in TTLs : UpdateTtl(n)
    \/ Tick

SpecFault == InitFault /\ [][NextFault]_vars

-----------------------------------------------------------------------------
(* One instance constructed over a file it did not write *)

OldKey == _make_key(<<PyStr(<<"a", "b">>)>>)

\* Entries of a file that parses as JSON: one without "timestamp", one
\* without "value", one whose timestamp fromisoformat rejects
ForeignEntries ==
    {[value |-> PyStr(<<"v">>)],
     [timestamp |-> isoformat(0)],
     [value |-> PyStr(<<"v">>), timestamp |-> <<>>]}

ForeignFiles ==
    {NoFile, Malformed} \cup {File(json_dump(OldKey :> e)) : e \in ForeignEntries}

InitFiles ==
    /\ ttl_days \in TTLs
    /\ disk \in ForeignFiles
    /\ _cache = _load_cache(disk)
    /\ now = 0
    /\ lastOp = NoOp("init")
    /\ result = IF _load_cache_raises(disk) THEN Raised("JSONDecodeError") ELSE None
    /\ written = EmptyStore
    /\ diskFaults = FALSE
    /\ keyIn = <<<<>>, <<>>>>
    /\ keyOut = <<>>
    /\ HassInit
    /\ TaskInit

SpecFiles == InitFiles /\ [][NextCore]_vars

-----------------------------------------------------------------------------
(* The integration: config entries and the services of DOMAIN *)

SERVICE_PLAN_ROUTE == "plan_route"

SERVICE_CLEAR_CACHE == "clear_cache"

CACHE_TYPES == {"geocoding", "routes", "all"}

DEFAULT_UNITS == <<"km">>

DEFAULT_LANGUAGE == <<"en">>

EntryIds == {"test_entry_id_1", "test_entry_id_2"}

\* PersistentCache(hass, cache_file, ttl_days): the new instance
PersistentCache(fs, cache_file, ttl) ==
    [cache_path |-> cache_file, ttl_days |-> ttl, _cache |-> _load_cache(fs[cache_file])]

\* The instance after a call with effect r, and the files after its save
After(self, r) == [self EXCEPT !._cache = r.cache]

Saved(fs, self, r) ==
    IF r.saves > 0
    THEN [fs EXCEPT ![self.cache_path] = _save_cache(r.cache, fs[self.cache_path], "ok")]
    ELSE fs

\* The geocoder: the coordinates the API returns for an address
Geocode(address) == IF lower(address) = <<"a", "b">> THEN Berlin ELSE Alex

\* api_client.get_directions(*arguments): the method takes origin,
\* destination, profile and preference; a fifth positional argument is a
\* TypeError at the call
get_directions(arguments) ==
    IF Len(arguments) > 4 THEN Raised("TypeError")
    ELSE PyDict(<<"5000", "300">>)

\* Mutant: CannotConnect leaves the handler as it is
handle_plan_route_leaks_cannot_connect(exception) ==
    IF exception = "" THEN ""
    ELSE IF exception = "CannotConnect" THEN "CannotConnect"
    ELSE "HomeAssistantError"

\* The except clauses of handle_plan_route: what reaches the caller when
\* the body raises exception ("" when it returns)
handle_plan_route_except(exception) ==
    IF exception = "" THEN ""
    ELSE IF exception = "HomeAssistantError" THEN "HomeAssistantError"
    ELSE IF exception = "ValueError" THEN "HomeAssistantError"
    ELSE IF exception = "CannotConnect" THEN "HomeAssistantError"
    ELSE "HomeAssistantError"

\* handle_plan_route between two awaits; st = [data, fs, call] is hass.data,
\* the files and the handler's locals. entry_data is the first entry.
\* call.evicted and call.stored name the caches this call has removed an
\* entry from and written an entry to, call.legs_stored the addresses (1 the
\* origin, 2 the destination) whose coordinates it has stored, and
\* call.meanwhile what ran on its geocoding cache while it awaited the
\* geocoder for an address: <<leg, "clear">>, <<leg, "disable">>.
\* The handler ends; the entry it held, if unloaded meanwhile, is dropped
Finish(st, exception) ==
    [st EXCEPT !.call.pc = "done",
               !.call.cause = exception,
               !.call.error = handle_plan_route_except(exception),
               !.call.fresh = TRUE,
               !.data = IF st.data[1].loaded THEN @ ELSE Tail(@)]

\* Step 1: geocode origin (with cache)
LookupOrigin(st) ==
    LET geocoding_cache == st.data[1].geocoding_cache
        r == GeocodingCache_get_coordinates(geocoding_cache, st.call.origin)
        after == [st EXCEPT !.data[1].geocoding_cache = After(geocoding_cache, r),
                            !.fs = Saved(st.fs, geocoding_cache, r),
                            !.call.evicted = IF r.cache # geocoding_cache._cache
                                             THEN @ \cup {"geocoding"} ELSE @]
    IN  IF raises(r.ret) THEN Finish(after, r.ret[2][1])
        ELSE IF r.ret = None
            THEN [after EXCEPT !.call.pc = "await_geocode_origin",
                               !.call.api_calls = @ + 1]
        ELSE [after EXCEPT !.call.pc = "lookup_destination",
                           !.call.origin_coords = r.ret]

\* Step 2: geocode destination (with cache)
LookupDestination(st) ==
    LET geocoding_cache == st.data[1].geocoding_cache
        r == GeocodingCache_get_coordinates(geocoding_cache, st.call.destination)
        after == [st EXCEPT !.data[1].geocoding_cache = After(geocoding_cache, r),
                            !.fs = Saved(st.fs, geocoding_cache, r),
                            !.call.evicted = IF r.cache # geocoding_cache._cache
                                             THEN @ \cup {"geocoding"} ELSE @]
    IN  IF raises(r.ret) THEN Finish(after, r.ret[2][1])
        ELSE IF r.ret = None
            THEN [after EXCEPT !.call.pc = "await_geocode_destination",
                               !.call.api_calls = @ + 1]
        ELSE [after EXCEPT !.call.pc = "lookup_route",
                           !.call.dest_coords = r.ret]

\* Step 3: get directions (with cache)
LookupRoute(st) ==
    LET entry_data == st.data[1]
        route_cache == entry_data.route_cache
        c == st.call
        r == RouteCache_get_route(route_cache, c.origin_coords, c.dest_coords,
                                  c.profile, entry_data.units)
        after == [st EXCEPT !.data[1].route_cache = After(route_cache, r),
                            !.fs = Saved(st.fs, route_cache, r),
                            !.call.evicted = IF r.cache # route_cache._cache
                                             THEN @ \cup {"routes"} ELSE @]
        route == get_directions(<<c.origin_coords, c.dest_coords, c.profile,
                                  entry_data.units, entry_data.language>>)
        w == RouteCache_set_route(after.data[1].route_cache, route, c.origin_coords,
                                  c.dest_coords, c.profile, entry_data.units)
    IN  IF raises(r.ret) THEN Finish(after, r.ret[2][1])
        ELSE IF r.ret # None THEN Finish([after EXCEPT !.call.route = r.ret], "")
        ELSE IF raises(route) THEN Finish(after, route[2][1])
        ELSE Finish([after EXCEPT
                        !.data[1].route_cache = After(after.data[1].route_cache, w),
                        !.fs = Saved(after.fs, after.data[1].route_cache, w),
                        !.call.route = route,
                        !.call.stored = IF w.saves > 0 THEN @ \cup {"routes"} ELSE @,
                        !.call.api_calls = @ + 1], "")

\* The handler runs until its next await or its end
RECURSIVE Advance(_)
Advance(st) ==
    IF st.call.pc = "lookup_origin" THEN Advance(LookupOrigin(st))
    ELSE IF st.call.pc = "lookup_destination" THEN Advance(LookupDestination(st))
    ELSE IF st.call.pc = "lookup_route" THEN Advance(LookupRoute(st))
    ELSE st

HassEffect(st) ==
    /\ hass_data' = st.data
    /\ files' = st.fs
    /\ call' = st.call

Awaiting == call.pc \in {"await_geocode_origin", "await_geocode_destination"}

\* hass.data[DOMAIN].values()
Loaded == SelectSeq(hass_data, LAMBDA e : e.loaded)

EntryIdsSetUp == {Loaded[i].entry_id : i \in 1..Len(Loaded)}

\* Another operation ran since the last call ended
Stale == [call EXCEPT !.fresh = FALSE]

\* The address the call awaits the geocoder for
Leg == IF call.pc = "await_geocode_origin" THEN 1 ELSE 2

\* The operation ran on the geocoding cache of the call in flight
Meanwhile(event) == [Stale EXCEPT !.meanwhile = @ \cup {<<Leg, event>>}]

async_setup_entry(entry_id, geocoding_ttl, route_ttl) ==
    /\ entry_id \notin EntryIdsSetUp
    /\ hass_data' = Append(hass_data,
            [entry_id |-> entry_id,
             geocoding_cache |-> PersistentCache(files, GEOCODING_CACHE_FILE, geocoding_ttl),
             route_cache |-> PersistentCache(files, ROUTES_CACHE_FILE, route_ttl),
             units |-> DEFAULT_UNITS,
             language |-> DEFAULT_LANGUAGE,
             options |-> <<geocoding_ttl, route_ttl>>,
             loaded |-> TRUE])
    /\ services' = IF SERVICE_PLAN_ROUTE \in services THEN services
                   ELSE services \cup {SERVICE_PLAN_ROUTE, SERVICE_CLEAR_CACHE}
    /\ call' = Stale
    /\ hassOp' = HassOp("async_setup_entry", <<>>)
    /\ UNCHANGED <<files, cacheVars, keyVars, taskVars>>

\* Mutant: the unload of the last entry leaves the services registered
async_unload_entry_keeps_services(entry_id) ==
    /\ entry_id \in EntryIdsSetUp
    /\ hass_data' =
        IF Awaiting /\ hass_data[1].loaded /\ hass_data[1].entry_id = entry_id
        THEN [hass_data EXCEPT ![1].loaded = FALSE]
        ELSE SelectSeq(hass_data, LAMBDA e : ~e.loaded \/ e.entry_id # entry_id)
    /\ call' = Stale
    /\ hassOp' = HassOp("async_unload_entry", <<>>)
    /\ UNCHANGED <<services, files, cacheVars, keyVars, taskVars>>

\* hass.data[DOMAIN].pop(entry.entry_id); a handler in flight keeps the
\* caches of the entry it started with
async_unload_entry(entry_id) ==
    /\ entry_id \in EntryIdsSetUp
    /\ hass_data' =
        IF Awaiting /\ hass_data[1].loaded /\ hass_data[1].entry_id = entry_id
        THEN [hass_data EXCEPT ![1].loaded = FALSE]
        ELSE SelectSeq(hass_data, LAMBDA e : ~e.loaded \/ e.entry_id # entry_id)
    /\ services' = IF EntryIdsSetUp = {entry_id}
                   THEN services \ {SERVICE_PLAN_ROUTE, SERVICE_CLEAR_CACHE}
                   ELSE services
    /\ call' = Stale
    /\ hassOp' = HassOp("async_unload_entry", <<>>)
    /\ UNCHANGED <<files, cacheVars, keyVars, taskVars>>

async_update_options(entry_id, new_geocoding_ttl, new_route_ttl) ==
    \E i \in 1..Len(hass_data) :
        LET entry_data == hass_data[i]
            g == PersistentCache_update_ttl(entry_data.geocoding_cache, new_geocoding_ttl)
            r == PersistentCache_update_ttl(entry_data.route_cache, new_route_ttl)
        IN  /\ entry_data.entry_id = entry_id
            /\ entry_data.loaded
            /\ hassOp' = HassOp("async_update_options",
                                <<entry_id, entry_data.geocoding_cache.ttl_days,
                                  entry_data.route_cache.ttl_days>>)
            /\ hass_data' = [hass_data EXCEPT
                    ![i].options = <<new_geocoding_ttl, new_route_ttl>>,
                    ![i].geocoding_cache =
                        [After(entry_data.geocoding_cache, g)
                            EXCEPT !.ttl_days = new_geocoding_ttl],
                    ![i].route_cache =
                        [After(entry_data.route_cache, r)
                            EXCEPT !.ttl_days = new_route_ttl]]
            /\ files' = Saved(Saved(files, entry_data.geocoding_cache, g),
                              entry_data.route_cache, r)
            /\ call' = IF /\ Awaiting
                          /\ i = 1
                          /\ entry_data.geocoding_cache.ttl_days > 0
                          /\ new_geocoding_ttl = 0
                       THEN Meanwhile("disable") ELSE Stale
            /\ UNCHANGED <<services, cacheVars, keyVars, taskVars>>

\* Mutant: the range has no upper end
vol_Range_no_max(min, max, v) == v >= min

\* vol.Range(min=min, max=max) accepts v
vol_Range(min, max, v) == v >= min /\ v <= max

\* The options form is submitted: the schema validates the two values, the
\* entry's options are replaced and the update listener runs
OptionsFlowHandler_async_step_init(entry_id, geocoding_cache_days, route_cache_days) ==
    /\ vol_Range(0, 365, geocoding_cache_days)
    /\ vol_Range(0, 365, route_cache_days)
    /\ async_update_options(entry_id, geocoding_cache_days, route_cache_days)

\* Mutant: every type clears both caches
handle_clear_cache_clears_all(cache_type) ==
    /\ SERVICE_CLEAR_CACHE \in services
    /\ hassOp' = HassOp("handle_clear_cache", <<cache_type>>)
    /\ hass_data' =
        [i \in 1..Len(hass_data) |->
            IF ~hass_data[i].loaded THEN hass_data[i]
            ELSE [hass_data[i] EXCEPT
                !.geocoding_cache = After(@, clear),
                !.route_cache = After(@, clear)]]
    /\ files' = [path \in CacheFiles |-> _save_cache(clear.cache, files[path], "ok")]
    /\ call' = Stale
    /\ UNCHANGED <<services, cacheVars, keyVars, taskVars>>

handle_clear_cache(cache_type) ==
    /\ SERVICE_CLEAR_CACHE \in services
    /\ hassOp' = HassOp("handle_clear_cache", <<cache_type>>)
    /\ hass_data' =
        [i \in 1..Len(hass_data) |->
            IF ~hass_data[i].loaded THEN hass_data[i]
            ELSE [hass_data[i] EXCEPT
                !.geocoding_cache =
                    IF cache_type \in {"geocoding", "all"} THEN After(@, clear) ELSE @,
                !.route_cache =
                    IF cache_type \in {"routes", "all"} THEN After(@, clear) ELSE @]]
    /\ files' =
        [path \in CacheFiles |->
            IF \/ path = GEOCODING_CACHE_FILE /\ cache_type \in {"geocoding", "all"}
               \/ path = ROUTES_CACHE_FILE /\ cache_type \in {"routes", "all"}
            THEN _save_cache(clear.cache, files[path], "ok")
            ELSE files[path]]
    /\ call' = IF /\ Awaiting
                  /\ hass_data[1].loaded
                  /\ cache_type \in {"geocoding", "all"}
               THEN Meanwhile("clear") ELSE Stale
    /\ UNCHANGED <<services, cacheVars, keyVars, taskVars>>

\* handle_plan_route up to its first await
handle_plan_route(origin_address, destination_address, profile) ==
    /\ SERVICE_PLAN_ROUTE \in services
    /\ ~Awaiting
    /\ hassOp' = HassOp("handle_plan_route", <<>>)
    /\ HassEffect(Advance(
            [data |-> hass_data,
             fs |-> files,
             call |-> [NoCall EXCEPT
                        !.pc = "lookup_origin",
                        !.origin = origin_address,
                        !.destination = destination_address,
                        !.profile = profile,
                        !.prev = IF call.pc = "done"
                                 THEN [args |-> <<call.origin, call.destination,
                                                  call.profile>>,
                                       ok |-> call.error = "",
                                       fresh |-> call.fresh]
                                 ELSE NoPrev]]))
    /\ UNCHANGED <<services, cacheVars, keyVars, taskVars>>

GeocodeOutcomes == {"coords", "ValueError", "CannotConnect"}

\* await api_client.geocode_address(address) ends, and the handler runs on
geocode_address_returns(outcome) ==
    /\ Awaiting
    /\ hassOp' = HassOp("geocode_address", <<>>)
    /\ LET origin == call.pc = "await_geocode_origin"
           address == IF origin THEN call.origin ELSE call.destination
           geocoding_cache == hass_data[1].geocoding_cache
           coords == Geocode(address)
           w == GeocodingCache_set_coordinates(geocoding_cache, address, coords)
           st == [data |-> hass_data, fs |-> files, call |-> call]
       IN  IF outcome = "coords"
           THEN HassEffect(Advance(
                    [st EXCEPT
                        !.data[1].geocoding_cache = After(geocoding_cache, w),
                        !.fs = Saved(files, geocoding_cache, w),
                        !.call.stored = IF w.saves > 0 THEN @ \cup {"geocoding"} ELSE @,
                        !.call.legs_stored = IF w.saves > 0 THEN @ \cup {Leg} ELSE @,
                        !.call.origin_coords = IF origin THEN coords ELSE @,
                        !.call.dest_coords = IF origin THEN @ ELSE coords,
                        !.call.pc = IF origin THEN "lookup_destination"
                                    ELSE "lookup_route"]))
           ELSE HassEffect(Finish([st EXCEPT !.call.api_failed = TRUE], outcome))
    /\ UNCHANGED <<services, cacheVars, keyVars, taskVars>>

PlanInputs == {<<<<"A", "b">>, <<"c">>, <<"driving-car">>>>}

PlanInputs_origin == <<"A", "b">>

PlanInputs_destination == <<"c">>

\* The cache options of an entry: disabled, or a TTL no entry outlives here
HassTtls == {0, 1}

NextHass ==
    \/ \E entry_id \in EntryIds, g \in HassTtls, r \in HassTtls :
            async_setup_entry(entry_id, g, r)
    \/ \E entry_id \in EntryIds : async_unload_entry(entry_id)
    \/ \E cache_type \in CACHE_TYPES : handle_clear_cache(cache_type)
    \/ \E t \in PlanInputs : handle_plan_route(t[1], t[2], t[3])
    \/ \E outcome \in GeocodeOutcomes : geocode_address_returns(outcome)

InitHass ==
    /\ ttl_days = 0
    /\ disk = NoFile
    /\ _cache = EmptyStore
    /\ now = 0
    /\ lastOp = NoOp("init")
    /\ result = None
    /\ written = EmptyStore
    /\ diskFaults = FALSE
    /\ keyIn = <<<<>>, <<>>>>
    /\ keyOut = <<>>
    /\ HassInit
    /\ TaskInit

SpecHass == InitHass /\ [][NextHass]_vars

\* The cache files an earlier run of the integration left: the coordinates
\* of the origin and the route between the two addresses, stored at time 0
LeftGeocoding ==
    _make_key(<<PyStr(<<"a", "b">>)>>)
        :> [value |-> list(Berlin), timestamp |-> isoformat(0)]

LeftRoutes ==
    _make_key(<<Berlin, Alex, PyStr(<<"driving-car">>), PyStr(DEFAULT_UNITS)>>)
        :> [value |-> PyDict(<<"5000", "300">>), timestamp |-> isoformat(0)]

\* The first time at which an entry stored at time 0 under a TTL of one day
\* is expired
Later == timedelta(1)

\* The values the options form is submitted with
OptionInputs == {-1, 0, 1, 366}

InitWarm ==
    /\ ttl_days = 0
    /\ disk = NoFile
    /\ _cache = EmptyStore
    /\ now \in {0, Later}
    /\ lastOp = NoOp("init")
    /\ result = None
    /\ written = EmptyStore
    /\ diskFaults = FALSE
    /\ keyIn = <<<<>>, <<>>>>
    /\ keyOut = <<>>
    /\ hass_data = <<>>
    /\ files \in [CacheFiles -> {NoFile, File(json_dump(LeftGeocoding)),
                                  File(json_dump(LeftRoutes))}]
    /\ files[GEOCODING_CACHE_FILE] # File(json_dump(LeftRoutes))
    /\ files[ROUTES_CACHE_FILE] # File(json_dump(LeftGeocoding))
    /\ services = {}
    /\ call = NoCall
    /\ hassOp = HassOp("none", <<>>)
    /\ TaskInit

\* One config entry
NextWarm ==
    \/ \E g \in HassTtls, r \in HassTtls :
            async_setup_entry("test_entry_id_1", g, r)
    \/ \E g \in OptionInputs, r \in OptionInputs :
            OptionsFlowHandler_async_step_init("test_entry_id_1", g, r)
    \/ \E cache_type \in CACHE_TYPES : handle_clear_cache(cache_type)
    \/ \E t \in PlanInputs : handle_plan_route(t[1], t[2], t[3])
    \/ \E outcome \in GeocodeOutcomes : geocode_address_returns(outcome)

SpecWarm == InitWarm /\ [][NextWarm]_vars

-----------------------------------------------------------------------------
(* The handlers statement by statement on the event loop, over one
   geocoding cache: two plan_route calls, a clear_cache call and an options
   update. A cache method is a run of statements; the event loop gives the
   turn to another handler only where the running one awaits. *)

Tasks == {"plan_route_1", "plan_route_2", "clear_cache", "update_options"}

\* The first statement of each handler that touches the cache
FirstStatement(t) ==
    IF t = "clear_cache" THEN "clear"
    ELSE IF t = "update_options" THEN "update_ttl"
    ELSE "get"

\* A handler at statement pc. leg: 1 for the origin, 2 for the destination.
\* inside: a cache method has begun and not returned. method, args and snap:
\* the cache method begun last, its arguments, and the instance and file at
\* its first statement. keys: the method's local expired_keys.
Task(pc) ==
    [pc |-> pc, leg |-> 1, inside |-> FALSE, method |-> "", args |-> <<>>,
     snap |-> [ttl_days |-> 0, _cache |-> EmptyStore, disk |-> NoFile], keys |-> {}]

\* Mutant: the turn can pass to another handler after every statement
suspends_after_every_statement(pc) == TRUE

\* The handler gives up the event loop at pc: at an await, or at its end
suspends(pc) == pc \in {"await", "done"}

\* Mutant: the assignment keeps the entry the key already has
Assign_keeps_first(cache, key, entry) == cache @@ (key :> entry)

\* self._cache[key] = entry
Assign(cache, key, entry) == (key :> entry) @@ cache

Address(task) == IF task.leg = 1 THEN PlanInputs_origin ELSE PlanInputs_destination

\* The state after the statement at tasks[t].pc. c = [_cache, ttl_days, disk,
\* task]; outcome is what the geocoder returns and new_ttl_days the option
\* submitted, where the statement reads them
Statement(c, outcome, new_ttl_days) ==
    LET task == c.task
        pc == task.pc
        address == Address(task)
        key == _make_key(<<PyStr(lower(address))>>)
        here == [ttl_days |-> c.ttl_days, _cache |-> c._cache, disk |-> c.disk]
        begin(method, args) ==
            [task EXCEPT !.inside = TRUE, !.method = method, !.args = args,
                         !.snap = here]
        return(tk, pc2) == [tk EXCEPT !.inside = FALSE, !.pc = pc2]
        next_leg == IF task.leg = 1 THEN "get" ELSE "done"
        to_next_leg(tk) ==
            [return(tk, next_leg) EXCEPT !.leg = IF task.leg = 1 THEN 2 ELSE @]
        saved == [c EXCEPT !.disk = _save_cache(c._cache, c.disk, "ok")]
    IN
    IF pc = "get" THEN
        LET tk == begin("get_coordinates", <<address>>) IN
        IF c.ttl_days = 0 \/ key \notin DOMAIN c._cache
        THEN [c EXCEPT !.task = return(tk, "await")]
        ELSE IF "timestamp" \notin DOMAIN c._cache[key]
        THEN [c EXCEPT !.task = return(tk, "done")]
        ELSE IF _is_expired(c.ttl_days, c._cache[key].timestamp)
        THEN [c EXCEPT !.task = [tk EXCEPT !.pc = "get_del"]]
        ELSE [c EXCEPT !.task = to_next_leg(tk)]
    ELSE IF pc = "get_del" THEN
        IF key \in DOMAIN c._cache
        THEN [c EXCEPT !._cache = Without(@, {key}), !.task.pc = "get_save"]
        ELSE [c EXCEPT !.task = return(task, "done")]
    ELSE IF pc = "get_save" THEN
        [saved EXCEPT !.task = return(task, "await")]
    ELSE IF pc = "await" THEN
        IF outcome = "coords"
        THEN [c EXCEPT !.task.pc = "set"]
        ELSE [c EXCEPT !.task.pc = "done"]
    ELSE IF pc = "set" THEN
        LET tk == begin("set_coordinates", <<address, Geocode(address)>>) IN
        IF c.ttl_days = 0
        THEN [c EXCEPT !.task = to_next_leg(tk)]
        ELSE [c EXCEPT
                !._cache = Assign(@, key, [value |-> list(Geocode(address)),
                                           timestamp |-> isoformat(now)]),
                !.task = [tk EXCEPT !.pc = "set_save"]]
    ELSE IF pc = "set_save" THEN
        [saved EXCEPT !.task = to_next_leg(task)]
    ELSE IF pc = "clear" THEN
        [c EXCEPT !._cache = EmptyStore,
                  !.task = [(IF task.inside THEN task ELSE begin("clear", <<>>))
                                EXCEPT !.pc = "clear_save"]]
    ELSE IF pc = "clear_save" THEN
        [saved EXCEPT !.task = return(task, "done")]
    ELSE IF pc = "update_ttl" THEN
        [c EXCEPT !.ttl_days = new_ttl_days,
                  !.task = [begin("update_ttl", <<new_ttl_days>>)
                                EXCEPT !.pc = IF new_ttl_days = 0 THEN "clear"
                                              ELSE "expired_keys"]]
    ELSE IF pc = "expired_keys" THEN
        LET expired_keys ==
                {k \in DOMAIN c._cache :
                    _is_expired(c.ttl_days, c._cache[k].timestamp)}
        IN  IF expired_keys = {}
            THEN [c EXCEPT !.task = return(task, "done")]
            ELSE [c EXCEPT !.task.keys = expired_keys, !.task.pc = "del_keys"]
    ELSE IF pc = "del_keys" THEN
        IF task.keys \subseteq DOMAIN c._cache
        THEN [c EXCEPT !._cache = Without(@, task.keys),
                       !.task.keys = {},
                       !.task.pc = "update_save"]
        ELSE [c EXCEPT !.task = [return(task, "done") EXCEPT !.keys = {}]]
    ELSE IF pc = "update_save" THEN
        [saved EXCEPT !.task = return(task, "done")]
    ELSE c

\* The event loop runs the next statement of handler t
Run(t, outcome, new_ttl_days) ==
    /\ running \in {"none", t}
    /\ tasks[t].pc # "done"
    /\ LET c == Statement([_cache |-> _cache, ttl_days |-> ttl_days, disk |-> disk,
                           task |-> tasks[t]], outcome, new_ttl_days)
       IN  /\ _cache' = c._cache
           /\ ttl_days' = c.ttl_days
           /\ disk' = c.disk
           /\ tasks' = [tasks EXCEPT ![t] = c.task]
           /\ running' = IF suspends(c.task.pc) THEN "none" ELSE t
    /\ UNCHANGED <<now, lastOp, result, written, diskFaults, keyVars, hassVars>>

InitTasks ==
    /\ ttl_days \in {1, MaxTtl}
    /\ _cache \in {EmptyStore, LeftGeocoding}
    /\ disk = IF _cache = EmptyStore THEN NoFile ELSE File(json_dump(_cache))
    /\ now \in {0, Later}
    /\ lastOp = NoOp("init")
    /\ result = None
    /\ written = EmptyStore
    /\ diskFaults = FALSE
    /\ keyIn = <<<<>>, <<>>>>
    /\ keyOut = <<>>
    /\ HassInit
    /\ tasks = [t \in Tasks |-> Task(FirstStatement(t))]
    /\ running = "none"

NextTasks ==
    \E t \in Tasks, outcome \in GeocodeOutcomes, new_ttl_days \in HassTtls :
        Run(t, outcome, new_ttl_days)

SpecTasks == InitTasks /\ [][NextTasks]_vars

\* Two plan_route calls for the same addresses on an empty cache, while the
\* clock advances between the turns of the handlers
Calls == {"plan_route_1", "plan_route_2"}

InitCalls ==
    /\ ttl_days \in {1, MaxTtl}
    /\ _cache = EmptyStore
    /\ disk = NoFile
    /\ now = 0
    /\ lastOp = NoOp("init")
    /\ result = None
    /\ written = EmptyStore
    /\ diskFaults = FALSE
    /\ keyIn = <<<<>>, <<>>>>
    /\ keyOut = <<>>
    /\ HassInit
    /\ tasks = [t \in Calls |-> Task(FirstStatement(t))]
    /\ running = "none"

NextCalls ==
    \/ \E t \in Calls, outcome \in GeocodeOutcomes : Run(t, outcome, ttl_days)
    \/ running = "none" /\ Tick

SpecCalls == InitCalls /\ [][NextCalls]_vars

-----------------------------------------------------------------------------
(* Key derivation on its own: the keys of (a, b) and of (b, a) *)

InitKey ==
    /\ keyIn \in Strings \X Strings
    /\ keyOut = <<>>
    /\ HassInit
    /\ TaskInit
    /\ ttl_days = 0
    /\ disk = NoFile
    /\ _cache = EmptyStore
    /\ now = 0
    /\ lastOp = NoOp("init")
    /\ result = None
    /\ written = EmptyStore
    /\ diskFaults = FALSE

MakeKeys ==
    /\ keyOut = <<>>
    /\ keyOut' = <<_make_key(<<PyStr(keyIn[1]), PyStr(keyIn[2])>>),
                   _make_key(<<PyStr(keyIn[2]), PyStr(keyIn[1])>>)>>
    /\ UNCHANGED <<keyIn, cacheVars, hassVars, taskVars>>

NextKey == MakeKeys

SpecKey == InitKey /\ [][NextKey]_vars

-----------------------------------------------------------------------------
(* Key derivation on two argument lists *)

MaxArgs == 2

\* Argument lists: one string of any length, or up to MaxArgs strings of at
\* most one character
RECURSIVE ListsOfLen(_)
ListsOfLen(n) ==
    IF n = 0 THEN {<<>>}
    ELSE {<<s>> \o l : s \in StringsOfLen(0) \cup StringsOfLen(1), l \in ListsOfLen(n - 1)}

KeyLists == {<<s>> : s \in Strings} \cup UNION {ListsOfLen(n) : n \in 0..MaxArgs}

PyStrs(l) == [i \in 1..Len(l) |-> PyStr(l[i])]

InitKeyLists ==
    /\ keyIn \in KeyLists \X KeyLists
    /\ keyOut = <<>>
    /\ ttl_days = 0
    /\ disk = NoFile
    /\ _cache = EmptyStore
    /\ now = 0
    /\ lastOp = NoOp("init")
    /\ result = None
    /\ written = EmptyStore
    /\ diskFaults = FALSE
    /\ HassInit
    /\ TaskInit

MakeListKeys ==
    /\ keyOut = <<>>
    /\ keyOut' = <<_make_key(PyStrs(keyIn[1])), _make_key(PyStrs(keyIn[2]))>>
    /\ UNCHANGED <<keyIn, cacheVars, hassVars, taskVars>>

NextKeyLists == MakeListKeys

SpecKeyLists == InitKeyLists /\ [][NextKeyLists]_vars

-----------------------------------------------------------------------------
(* Properties *)

\* The instant at which an entry written at w.at expires under a TTL
ExpiresAt(w, ttl) == w.at + ttl * TicksPerDay

IsGet(op, args) == op.op = "get" /\ op.args = args

\* C1: with a TTL of D > 0 days, get returns an entry written by set at time T
\* at every time strictly before T + D, and reports a miss at every time at
\* or after T + D, the instant T + D included.
C1_ExpiryBoundary ==
    [][\A args \in ArgLists :
        LET key == _make_key(args) IN
        (/\ IsGet(lastOp', args)
         /\ ttl_days > 0
         /\ key \in DOMAIN written
         /\ written[key].via = "set"
         /\ ~written[key].loaded)
        => result' = IF now < ExpiresAt(written[key], ttl_days)
                     THEN written[key].value
                     ELSE None]_vars

\* A get at the very instant T + D misses and evicts the entry.
C1_Witness ==
    /\ lastOp.op = "get"
    /\ ttl_days > 0
    /\ result = None
    /\ \E k \in DOMAIN lastOp.evicted :
        fromisoformat(lastOp.evicted[k]) + ttl_days * TicksPerDay = now

\* C2: while the TTL is 0, get reports a miss (also right after a set), and
\* neither set nor get changes the in-memory store or the file or calls
\* _save_cache.
C2_DisabledIsInert ==
    [][(ttl_days = 0 /\ lastOp'.op \in {"set", "get"})
        => /\ _cache' = _cache
           /\ disk' = disk
           /\ lastOp'.saves = 0
           /\ lastOp'.op = "get" => result' = None]_vars

\* A get that follows a set of the same key at TTL 0 and misses, on an
\* instance whose store holds entries loaded from the file.
C2_Witness ==
    /\ ttl_days = 0
    /\ lastOp.op = "get"
    /\ lastOp.after_set
    /\ result = None
    /\ _make_key(lastOp.args) \in DOMAIN _cache

\* C3: for TTL > 0, set(v, k) followed immediately by get(k) returns v.
C3_SetThenGet ==
    [][\A args \in ArgLists :
        (/\ lastOp.op = "set"
         /\ lastOp.args = args
         /\ IsGet(lastOp', args)
         /\ ttl_days > 0)
        => /\ _make_key(args) \in DOMAIN written
           /\ result' = written[_make_key(args)].value]_vars

\* A get right after a set of the same key that replaced an older entry.
C3_Witness ==
    /\ ttl_days > 0
    /\ lastOp.op = "get"
    /\ lastOp.after_set
    /\ now > 0
    /\ _make_key(lastOp.args) \in DOMAIN written
    /\ written[_make_key(lastOp.args)].at = now
    /\ result = written[_make_key(lastOp.args)].value
    /\ result # None

\* C4: an entry written through one instance is returned by get on a fresh
\* instance constructed on the same path with TTL > 0, as long as the entry's
\* age is below that TTL.
C4_SurvivesRestart ==
    [][\A args \in ArgLists :
        LET key == _make_key(args) IN
        (/\ IsGet(lastOp', args)
         /\ ttl_days > 0
         /\ key \in DOMAIN written
         /\ written[key].via = "set"
         /\ written[key].loaded
         /\ now < ExpiresAt(written[key], ttl_days))
        => result' = written[key].value]_vars

\* A hit on a fresh instance for an entry written before the restart.
C4_Witness ==
    /\ lastOp.op = "get"
    /\ ttl_days > 0
    /\ _make_key(lastOp.args) \in DOMAIN written
    /\ written[_make_key(lastOp.args)].loaded
    /\ written[_make_key(lastOp.args)].via = "set"
    /\ result = written[_make_key(lastOp.args)].value
    /\ result # None

\* C5: update_ttl(n) with n > 0 keeps exactly the entries whose age is
\* strictly below n days, and calls _save_cache once if it evicted an entry
\* and not at all otherwise.
C5_UpdateTtlSweep ==
    [][(lastOp'.op = "update_ttl" /\ ttl_days' > 0)
        => /\ DOMAIN written = DOMAIN _cache
           /\ \A k \in DOMAIN _cache :
                /\ (k \in DOMAIN _cache') <=>
                        (now - written[k].at < ttl_days' * TicksPerDay)
                /\ k \in DOMAIN _cache' => _cache'[k] = _cache[k]
           /\ DOMAIN _cache' \subseteq DOMAIN _cache
           /\ lastOp'.saves = IF DOMAIN _cache' # DOMAIN _cache THEN 1 ELSE 0
           /\ disk' = IF DOMAIN _cache' # DOMAIN _cache
                      THEN File(json_dump(_cache'))
                      ELSE disk]_vars

\* An update_ttl(n > 0) that evicted one entry and kept another.
C5_Witness ==
    /\ lastOp.op = "update_ttl"
    /\ ttl_days > 0
    /\ lastOp.evicted # EmptyStore
    /\ _cache # EmptyStore
    /\ lastOp.saves = 1

\* C6: update_ttl(0) leaves the in-memory store empty and the file holding
\* the empty store, and from then on every get misses and the store stays
\* empty, whatever the TTL becomes, until a new set.
C6_DisableWipes ==
    [][/\ (lastOp'.op = "update_ttl" /\ ttl_days' = 0)
            => /\ _cache' = EmptyStore
               /\ disk' = File(json_dump(EmptyStore))
       /\ (/\ _cache = EmptyStore
           /\ disk = File(json_dump(EmptyStore))
           /\ lastOp'.op \notin {"set", "set_coordinates"})
            => /\ _cache' = EmptyStore
               /\ disk' = disk
               /\ lastOp'.op \in {"get", "get_coordinates"} => result' = None]_vars

\* update_ttl(0) ran on a populated cache.
C6_Witness ==
    /\ lastOp.op = "update_ttl"
    /\ ttl_days = 0
    /\ lastOp.evicted # EmptyStore
    /\ _cache = EmptyStore

\* C7: after clear() every get misses, and the file holds the empty store,
\* so that a fresh instance on the same path misses too.
C7_ClearEmpties ==
    lastOp.op = "clear"
        => /\ \A args \in ArgLists : get(args).ret = None
           /\ \A address \in Addresses : get_coordinates(address).ret = None
           /\ _cache = EmptyStore
           /\ disk.exists
           /\ _load_cache(disk) = EmptyStore

\* clear() ran on a populated cache with a positive TTL.
C7_Witness ==
    /\ lastOp.op = "clear"
    /\ ttl_days > 0
    /\ lastOp.evicted # EmptyStore
    /\ lastOp.saves = 1

HasDelimiter(s) == \E i \in 1..Len(s) : s[i] = "|"

\* C8 as claimed: for all strings a # b, the '|' delimiter included,
\* key(a, b) differs from key(b, a).
C8_OrderSensitiveAnyString ==
    (keyOut # <<>> /\ keyIn[1] # keyIn[2]) => keyOut[1] # keyOut[2]

\* C8, amended: for all strings a # b that do not contain the '|' delimiter,
\* key(a, b) differs from key(b, a).
C8_OrderSensitive ==
    (/\ keyOut # <<>>
     /\ keyIn[1] # keyIn[2]
     /\ ~HasDelimiter(keyIn[1])
     /\ ~HasDelimiter(keyIn[2]))
    => keyOut[1] # keyOut[2]

\* The keys of two different delimiter-free strings, one a prefix of the other.
C8_Witness ==
    /\ keyOut # <<>>
    /\ keyIn[1] = <<"a">>
    /\ keyIn[2] = <<"a", "a">>
    /\ keyOut[1] # keyOut[2]

\* C9: a get that finds an entry expired under the current TTL (> 0) removes
\* exactly that entry from the store, rewrites the file without it with one
\* _save_cache call, and reports a miss.
C9_GetEvictsExpired ==
    [][\A args \in ArgLists :
        LET key == _make_key(args) IN
        (/\ IsGet(lastOp', args)
         /\ ttl_days > 0
         /\ key \in DOMAIN _cache
         /\ now >= fromisoformat(_cache[key].timestamp) + ttl_days * TicksPerDay)
        => /\ result' = None
           /\ _cache' = Without(_cache, {key})
           /\ disk' = File(json_dump(Without(_cache, {key})))
           /\ lastOp'.saves = 1]_vars

\* A get evicted an expired entry and left another entry in the store.
C9_Witness ==
    /\ lastOp.op = "get"
    /\ ttl_days > 0
    /\ result = None
    /\ lastOp.evicted # EmptyStore
    /\ _cache # EmptyStore
    /\ disk = File(json_dump(_cache))

SameLetter(c, d) == c = d \/ {c, d} \in {{"A", "a"}, {"B", "b"}}

\* Two addresses that differ at most in letter case
SameIgnoringCase(s, t) ==
    Len(s) = Len(t) /\ \A i \in 1..Len(s) : SameLetter(s[i], t[i])

\* C10: within the TTL, get_coordinates(b) returns the pair c given to
\* set_coordinates(a, c) for every b that differs from a only in letter case.
C10_CaseInsensitive ==
    [][\A address \in Addresses : \A k \in DOMAIN written :
        (/\ lastOp'.op = "get_coordinates"
         /\ lastOp'.args = <<PyStr(address)>>
         /\ ttl_days > 0
         /\ written[k].via = "set_coordinates"
         /\ SameIgnoringCase(written[k].args[1][2], address)
         /\ now < ExpiresAt(written[k], ttl_days))
        => result' = written[k].value]_vars

\* get_coordinates returned the pair stored under another spelling.
C10_Witness ==
    /\ lastOp.op = "get_coordinates"
    /\ ttl_days > 0
    /\ \E k \in DOMAIN written :
        /\ written[k].via = "set_coordinates"
        /\ written[k].args # lastOp.args
        /\ SameIgnoringCase(written[k].args[1][2], lastOp.args[1][2])
        /\ result = written[k].value
        /\ result[1] = "tuple"

RouteKey(t) == _make_key(<<t[1], t[2], PyStr(t[3]), PyStr(t[4])>>)

\* The key of every lookup
RouteKeyOf == [t \in RouteTuples |-> RouteKey(t)]

\* C11: set_route on one (origin, destination, profile, units) lookup stores
\* the route under a key that no other lookup has and leaves the entry, and
\* so the get_route result, of every other lookup unchanged, those that
\* differ in the profile only or in the units only included.
C11_RoutesDoNotCollide ==
    [][\A t \in RouteTuples :
        (lastOp'.op = "set_route" /\ lastOp'.args = t /\ ttl_days > 0)
        => /\ RouteKeyOf[t] \in DOMAIN _cache'
           /\ _cache'[RouteKeyOf[t]].value = written'[RouteKeyOf[t]].value
           /\ written'[RouteKeyOf[t]].args = t
           /\ \A u \in RouteTuples \ {t} :
                /\ RouteKeyOf[u] # RouteKeyOf[t]
                /\ RouteKeyOf[u] \in DOMAIN _cache' <=> RouteKeyOf[u] \in DOMAIN _cache
                /\ RouteKeyOf[u] \in DOMAIN _cache
                     => _cache'[RouteKeyOf[u]] = _cache[RouteKeyOf[u]]]_vars

\* Two lookups that differ in the units only hold different routes.
C11_Witness ==
    /\ lastOp.op = "set_route"
    /\ ttl_days > 0
    /\ \E t, u \in RouteTuples :
        /\ t[1] = u[1] /\ t[2] = u[2] /\ t[3] = u[3] /\ t[4] # u[4]
        /\ get_route(t[1], t[2], t[3], t[4]).ret \in Routes
        /\ get_route(u[1], u[2], u[3], u[4]).ret \in Routes
        /\ get_route(t[1], t[2], t[3], t[4]).ret # get_route(u[1], u[2], u[3], u[4]).ret

\* The on-disk document equals the in-memory store
InSync == disk = File(json_dump(_cache)) /\ json_load(disk.text) = _cache

CacheOps == {"get", "set", "clear", "update_ttl"}

\* The step is one of the mutating operations: set with TTL > 0, a get that
\* evicts, clear, an update_ttl that evicts or disables
Mutates ==
    \/ lastOp'.op = "set" /\ ttl_days > 0
    \/ lastOp'.op = "get" /\ _cache' # _cache
    \/ lastOp'.op = "clear"
    \/ lastOp'.op = "update_ttl" /\ (_cache' # _cache \/ ttl_days' = 0)

SaveFailed(op) == op.saves > 0 /\ op.outcome \in {"open_fails", "dump_fails"}

\* C12: after every mutating operation (set with TTL > 0, evicting get,
\* clear, update_ttl that evicts or disables) whose save does not fail, the
\* on-disk document equals the in-memory store; an operation that does not
\* mutate the store leaves the two equal if they were equal before.
C12_DiskEqualsMemory ==
    [][/\ (Mutates /\ ~SaveFailed(lastOp')) => InSync'
       /\ (lastOp'.op \in CacheOps /\ ~Mutates /\ InSync) => InSync']_vars

\* A get evicted an entry, its save succeeded, and the file holds the
\* remaining entry.
C12_Witness ==
    /\ lastOp.op = "get"
    /\ lastOp.saves = 1
    /\ lastOp.outcome = "ok"
    /\ diskFaults
    /\ _cache # EmptyStore
    /\ InSync

\* C13: constructing a cache over a missing file or over a file with
\* malformed content does not raise and yields an empty store, so every get
\* reports a miss.
C13_LoadFailureIsEmpty ==
    (lastOp.op = "init" /\ (~disk.exists \/ ~disk.valid))
        => /\ ~raises(result)
           /\ _cache = EmptyStore
           /\ \A args \in ArgLists : get(args).ret = None

\* A cache with TTL > 0 was constructed, at a later time, over a file with
\* malformed content.
C13_Witness ==
    /\ lastOp.op = "init"
    /\ disk = Malformed
    /\ ttl_days > 0
    /\ now > 0
    /\ _cache = EmptyStore

Incompatible(entry) == {"value", "timestamp"} \ DOMAIN entry # {}

\* C14: over a file that parses but holds an entry without the timestamp or
\* the value field, construction, get, set and update_ttl do not raise, and
\* get of that entry reports a miss.
C14_IncompatibleIsCold ==
    /\ ~raises(result)
    /\ \A args \in ArgLists :
         (/\ IsGet(lastOp, args)
          /\ _make_key(args) \in DOMAIN _cache
          /\ Incompatible(_cache[_make_key(args)]))
         => result = None

Unparseable(entry) == "timestamp" \in DOMAIN entry /\ ~parses(entry.timestamp)

\* C15: an entry whose timestamp does not parse is treated like an expired
\* one: get of it reports a miss and, with TTL > 0, evicts it and saves;
\* update_ttl(n > 0) evicts it; its value is not returned.
C15_UnparseableIsExpired ==
    [][\A args \in ArgLists :
        LET key == _make_key(args) IN
        (key \in DOMAIN _cache /\ Unparseable(_cache[key]))
        => /\ IsGet(lastOp', args)
                => /\ result' = None
                   /\ ttl_days > 0
                        => /\ _cache' = Without(_cache, {key})
                           /\ lastOp'.saves = 1
                           /\ disk' = File(json_dump(Without(_cache, {key})))
           /\ (lastOp'.op = "update_ttl" /\ ttl_days' > 0)
                => /\ key \notin DOMAIN _cache'
                   /\ lastOp'.saves = 1
                   /\ disk' = File(json_dump(_cache'))]_vars

\* A get with TTL > 0 evicted an entry whose timestamp does not parse.
C15_Witness ==
    /\ lastOp.op = "get"
    /\ ttl_days > 0
    /\ \E k \in DOMAIN lastOp.evicted : ~parses(lastOp.evicted[k])
    /\ result = None
    /\ _cache = EmptyStore

\* C16: when the disk write of set, clear, an evicting get or update_ttl
\* fails, the operation does not raise and the store is the one a successful
\* save would have left: the entry set is returned by the next get, the store
\* is empty after clear or a disabling update_ttl, the evicted entries are
\* gone.
C16_SaveFailureKeepsMemory ==
    [][SaveFailed(lastOp')
        => /\ ~raises(result')
           /\ \A args \in ArgLists :
                LET key == _make_key(args) IN
                /\ (lastOp'.op = "set" /\ lastOp'.args = args)
                    => /\ _cache' =
                            (key :> [value |-> written'[key].value,
                                     timestamp |-> isoformat(now)]) @@ _cache
                       /\ get(args)'.ret = written'[key].value
                /\ (lastOp'.op = "get" /\ lastOp'.args = args)
                    => /\ _cache' = Without(_cache, {key})
                       /\ result' = None
           /\ lastOp'.op = "clear" => _cache' = EmptyStore
           /\ lastOp'.op = "update_ttl"
                => _cache' =
                    IF ttl_days' = 0 THEN EmptyStore
                    ELSE Without(_cache,
                            {k \in DOMAIN _cache :
                                now >= ExpiresAt(written[k], ttl_days')})]_vars

\* A set whose disk write failed left its entry in the store while the file
\* does not hold it.
C16_Witness ==
    /\ lastOp.op = "set"
    /\ SaveFailed(lastOp)
    /\ ~raises(result)
    /\ _make_key(lastOp.args) \in DOMAIN _cache
    /\ ~InSync

\* C17: set with TTL > 0 on a key that has an entry replaces the entry: the
\* store has the same keys, the entry holds the new value and the time of
\* this set, and it expires TTL days after this set.
C17_SetReplaces ==
    [][\A args \in ArgLists :
        LET key == _make_key(args) IN
        (/\ lastOp'.op = "set"
         /\ lastOp'.args = args
         /\ ttl_days > 0
         /\ key \in DOMAIN _cache)
        => /\ DOMAIN _cache' = DOMAIN _cache
           /\ _cache'[key] = [value |-> written'[key].value,
                              timestamp |-> isoformat(now)]
           /\ fromisoformat(_cache'[key].timestamp) + timedelta(ttl_days)
                = ExpiresAt(written'[key], ttl_days)
           /\ written'[key].at = now
           /\ \A k \in DOMAIN _cache \ {key} : _cache'[k] = _cache[k]]_vars

\* A set replaced an entry written at an earlier time by another value.
C17_Witness ==
    /\ lastOp.op = "set"
    /\ ttl_days > 0
    /\ now > 0
    /\ _make_key(lastOp.args) \in lastOp.replaced
    /\ _cache[_make_key(lastOp.args)].timestamp = isoformat(now)

\* C18: update_ttl(n > 0) leaves every surviving entry as it was: same value,
\* same timestamp, so that it expires n days after the time it was written.
C18_SurvivorsUntouched ==
    [][(lastOp'.op = "update_ttl" /\ ttl_days' > 0)
        => \A k \in DOMAIN _cache' :
            /\ k \in DOMAIN _cache
            /\ _cache'[k].value = _cache[k].value
            /\ _cache'[k].timestamp = _cache[k].timestamp
            /\ fromisoformat(_cache'[k].timestamp) + timedelta(ttl_days')
                 = ExpiresAt(written[k], ttl_days')]_vars

\* An update_ttl at a later time evicted one entry and kept another that was
\* written before the update.
C18_Witness ==
    /\ lastOp.op = "update_ttl"
    /\ ttl_days > 0
    /\ lastOp.evicted # EmptyStore
    /\ \E k \in DOMAIN _cache : fromisoformat(_cache[k].timestamp) < now

\* The cache instances of the entries that are set up, bound to a path
InstancesOn(path) ==
    {ic \in (1..Len(hass_data)) \X {"geocoding_cache", "route_cache"} :
        hass_data[ic[1]][ic[2]].cache_path = path}

\* C19: in every state reachable through config-entry setup and unload, at
\* most one active PersistentCache instance is bound to any one cache file.
C19_OneInstancePerFile ==
    \A path \in CacheFiles : Cardinality(InstancesOn(path)) <= 1

CallArgs == <<call.origin, call.destination, call.profile>>

CallRouteKey ==
    _make_key(<<call.origin_coords, call.dest_coords, PyStr(call.profile),
                PyStr(hass_data[1].units)>>)

\* C20: with both TTLs > 0, a plan_route call whose API requests all succeed
\* ends without error and leaves its route in the route cache under the key of
\* the geocoder's coordinates; and a call that directly follows a successful
\* identical call makes no API call.
C20_SecondCallFromCache ==
    (/\ call.pc = "done"
     /\ call.fresh
     /\ hass_data # <<>>
     /\ hass_data[1].geocoding_cache.ttl_days > 0
     /\ hass_data[1].route_cache.ttl_days > 0)
    => /\ ~call.api_failed
            => /\ call.error = ""
               /\ CallRouteKey \in DOMAIN hass_data[1].route_cache._cache
               /\ CallRouteKey =
                    _make_key(<<Geocode(call.origin), Geocode(call.destination),
                                PyStr(call.profile), PyStr(hass_data[1].units)>>)
       /\ (call.prev.ok /\ call.prev.fresh /\ call.prev.args = CallArgs)
            => call.api_calls = 0 /\ call.error = ""

\* C25: constructing a cache over a path with no file creates no file, and
\* get (a miss, the store being empty) and set with TTL 0 leave the path
\* absent.
C25_NoFileUntilMutation ==
    [][(/\ ~disk.exists
        /\ \/ lastOp'.op \in {"init", "get", "get_coordinates"}
           \/ lastOp'.op \in {"set", "set_coordinates"} /\ ttl_days = 0)
        => /\ ~disk'.exists
           /\ lastOp'.op \in {"get", "get_coordinates"} => result' = None]_vars

\* A get with TTL > 0 missed on a cache whose path still has no file.
C25_Witness ==
    /\ lastOp.op = "get"
    /\ ttl_days > 0
    /\ result = None
    /\ ~disk.exists

\* C26: after a cache with TTL > 0 was constructed over a file with
\* malformed content, set leaves a well-formed document that holds the entry
\* just written and nothing else, and a new instance loads that entry.
C26_CorruptFileHeals ==
    [][\A args \in ArgLists :
        LET key == _make_key(args) IN
        (/\ disk = Malformed
         /\ _cache = _load_cache(disk)
         /\ ttl_days > 0
         /\ lastOp'.op = "set"
         /\ lastOp'.args = args)
        => /\ disk'.exists /\ disk'.valid
           /\ DOMAIN disk'.text = {key}
           /\ _load_cache(disk') =
                (key :> [value |-> written'[key].value, timestamp |-> isoformat(now)])
           /\ _load_cache(disk') = _cache']_vars

\* A set was made on a cache constructed over a file with malformed content,
\* and the file now is a well-formed document.
C26_Witness ==
    /\ lastOp.op = "set"
    /\ ttl_days > 0
    /\ disk.valid
    /\ lastOp.file_before = "malformed"
    /\ Cardinality(DOMAIN _cache) = 1
    /\ _load_cache(disk) = _cache

\* Two argument lists differ in length or in the string form of an element
ListsDiffer(l, m) ==
    \/ Len(l) # Len(m)
    \/ \E i \in 1..Len(l) : str(PyStr(l[i])) # str(PyStr(m[i]))

NoDelimiter(l) == \A i \in 1..Len(l) : ~HasDelimiter(l[i])

\* C28 as claimed: two argument lists that differ in length or in the string
\* form of an element have different keys, arguments that contain the '|'
\* delimiter included.
C28_Injective ==
    (keyOut # <<>> /\ ListsDiffer(keyIn[1], keyIn[2])) => keyOut[1] # keyOut[2]

\* C28, amended: two non-empty argument lists none of whose elements contains
\* the '|' delimiter, and that differ in length or in the string form of an
\* element, have different keys.
C28_InjectiveWithoutDelimiter ==
    (/\ keyOut # <<>>
     /\ ListsDiffer(keyIn[1], keyIn[2])
     /\ keyIn[1] # <<>> /\ keyIn[2] # <<>>
     /\ NoDelimiter(keyIn[1]) /\ NoDelimiter(keyIn[2]))
    => keyOut[1] # keyOut[2]

\* The keys of a one-argument list and of a two-argument list with the same
\* letters and no delimiter.
C28_Witness ==
    /\ keyOut # <<>>
    /\ keyIn[1] = <<<<"a", "b">>>>
    /\ keyIn[2] = <<<<"a">>, <<"b">>>>
    /\ keyOut[1] # keyOut[2]

\* The operation of the step reads or writes the entry of this key
Touches(op, key) ==
    \/ op.op \in {"get", "set"} /\ _make_key(op.args) = key
    \/ /\ op.op \in {"get_coordinates", "set_coordinates"}
       /\ _make_key(<<PyStr(lower(op.args[1][2]))>>) = key

\* C29: an entry whose age has reached the TTL stays in the store and in the
\* file through every step that is not a get or set of its key, a clear or an
\* update_ttl; and when update_ttl raises the TTL above the entry's age, the
\* entry stays and get returns it again.
C29_LazyEviction ==
    [][\A args \in ArgLists :
        LET key == _make_key(args) IN
        (/\ key \in DOMAIN _cache
         /\ ttl_days > 0
         /\ now >= fromisoformat(_cache[key].timestamp) + timedelta(ttl_days))
        => /\ (lastOp'.op \notin {"clear", "update_ttl"} /\ ~Touches(lastOp', key))
                => /\ key \in DOMAIN _cache'
                   /\ _cache'[key] = _cache[key]
                   /\ disk'.exists /\ disk'.valid
                   /\ key \in DOMAIN disk'.text
           /\ (/\ lastOp'.op = "update_ttl"
               /\ now < fromisoformat(_cache[key].timestamp) + timedelta(ttl_days'))
                => /\ key \in DOMAIN _cache'
                   /\ _cache'[key] = _cache[key]
                   /\ get(args)'.ret = _cache[key].value]_vars

\* An update_ttl raised the TTL from 1 day to 2 days while the store held an
\* entry older than 1 day, and get still returns that entry.
C29_Witness ==
    /\ lastOp.op = "update_ttl"
    /\ lastOp.ttl_before = 1
    /\ ttl_days = 2
    /\ \E args \in ArgLists :
         /\ _make_key(args) \in DOMAIN _cache
         /\ now >= fromisoformat(_cache[_make_key(args)].timestamp) + timedelta(1)
         /\ get(args).ret = _cache[_make_key(args)].value

\* C30: a cache constructed with TTL 0 over a file with entries holds those
\* entries and leaves the file as it is; get and set at TTL 0 change neither;
\* and after update_ttl(n > 0) get returns every entry younger than n days.
C30_DisabledConstructionKeeps ==
    [][/\ (lastOp'.op = "init" /\ ttl_days' = 0 /\ disk.exists /\ disk.valid)
            => /\ _cache' = json_load(disk.text)
               /\ disk' = disk
       /\ (/\ ttl_days = 0
           /\ lastOp'.op \in {"get", "set", "get_coordinates", "set_coordinates"})
            => /\ _cache' = _cache
               /\ disk' = disk
       /\ (ttl_days = 0 /\ lastOp'.op = "update_ttl" /\ ttl_days' > 0)
            => \A args \in ArgLists :
                LET key == _make_key(args) IN
                (/\ key \in DOMAIN _cache
                 /\ now - written[key].at < ttl_days' * TicksPerDay)
                => get(args)'.ret = _cache[key].value]_vars

\* A cache that was constructed with TTL 0 over a file with an entry got a
\* TTL > 0 and still holds the loaded entry.
C30_Witness ==
    /\ lastOp.op = "update_ttl"
    /\ lastOp.ttl_before = 0
    /\ ttl_days > 0
    /\ \E args \in ArgLists :
         /\ _make_key(args) \in DOMAIN _cache
         /\ written[_make_key(args)].loaded
         /\ get(args).ret = _cache[_make_key(args)].value

-----------------------------------------------------------------------------
(* The services and the loaded entries *)

Registered(svc) == SERVICE_PLAN_ROUTE \in svc /\ SERVICE_CLEAR_CACHE \in svc

\* C23 as stated: after every setup and unload the two services are
\* registered exactly when an entry is loaded, and no step of a service
\* handler, the resumption of plan_route after an await included, is taken
\* while no entry is loaded
C23_HandlersRunLoaded ==
    [][/\ Registered(services') <=> Loaded' # <<>>
       /\ services' \in {{}, {SERVICE_PLAN_ROUTE, SERVICE_CLEAR_CACHE}}
       /\ hassOp'.op \in {"handle_plan_route", "handle_clear_cache", "geocode_address"}
            => Loaded # <<>>]_vars

\* C23 amended: the services are registered exactly when an entry is
\* loaded, no service handler starts while no entry is loaded, and a
\* plan_route call that resumes after its await still holds the entry it
\* started with
C23_HandlersStartLoaded ==
    [][/\ Registered(services') <=> Loaded' # <<>>
       /\ services' \in {{}, {SERVICE_PLAN_ROUTE, SERVICE_CLEAR_CACHE}}
       /\ hassOp'.op \in {"handle_plan_route", "handle_clear_cache"} => Loaded # <<>>
       /\ hassOp'.op = "geocode_address" => hass_data # <<>>]_vars

\* plan_route has finished after the last entry was unloaded during its
\* await, and the services are gone
C23_Witness ==
    /\ hassOp.op = "geocode_address"
    /\ call.pc = "done"
    /\ Loaded = <<>>
    /\ services = {}

-----------------------------------------------------------------------------
(* The clear_cache service and the options update *)

CacheFileOf(name) ==
    IF name = "geocoding_cache" THEN GEOCODING_CACHE_FILE ELSE ROUTES_CACHE_FILE

\* The step emptied the named cache of entry i and its file
Emptied(i, name) ==
    /\ hass_data'[i][name]._cache = EmptyStore
    /\ _load_cache(files'[CacheFileOf(name)]) = EmptyStore
    /\ files'[CacheFileOf(name)].exists

\* The step left the named cache of entry i and its file as they were
Untouched(i, name) ==
    /\ hass_data'[i][name] = hass_data[i][name]
    /\ files'[CacheFileOf(name)] = files[CacheFileOf(name)]

\* C21: a clear_cache call of type 'geocoding' empties the geocoding cache of
\* every loaded entry and leaves every route cache as it was; of type 'routes'
\* the reverse; of type 'all' it empties both.
C21_ClearsSelected ==
    [][hassOp'.op = "handle_clear_cache"
        => \A i \in 1..Len(hass_data) :
            hassOp'.args[1] \in CACHE_TYPES /\ hass_data[i].loaded
            => /\ hassOp'.args[1] = "geocoding"
                    => Emptied(i, "geocoding_cache") /\ Untouched(i, "route_cache")
               /\ hassOp'.args[1] = "routes"
                    => Emptied(i, "route_cache") /\ Untouched(i, "geocoding_cache")
               /\ hassOp'.args[1] = "all"
                    => Emptied(i, "geocoding_cache") /\ Emptied(i, "route_cache")]_vars

\* clear_cache of type 'geocoding' has run on an entry whose route cache
\* holds a route, and the route is still there
C21_Witness ==
    /\ hassOp = HassOp("handle_clear_cache", <<"geocoding">>)
    /\ Loaded # <<>>
    /\ Loaded[1].geocoding_cache._cache = EmptyStore
    /\ Loaded[1].route_cache._cache = LeftRoutes
    /\ files[GEOCODING_CACHE_FILE] = File(json_dump(EmptyStore))

\* The keys get returns a value for
Retrievable(self) ==
    IF self.ttl_days = 0 THEN {}
    ELSE {key \in DOMAIN self._cache :
            /\ "timestamp" \in DOMAIN self._cache[key]
            /\ "value" \in DOMAIN self._cache[key]
            /\ ~_is_expired(self.ttl_days, self._cache[key].timestamp)}

\* C22: the TTL of each cache of a loaded entry is the entry's option for it,
\* a number of days in 0..365; an options update that changes one of the two
\* options and not the other leaves the keys retrievable from the other cache
\* as they were.
C22_OptionsApplied ==
    [][/\ \A i \in 1..Len(hass_data') :
            hass_data'[i].loaded
            => /\ hass_data'[i].geocoding_cache.ttl_days = hass_data'[i].options[1]
               /\ hass_data'[i].route_cache.ttl_days = hass_data'[i].options[2]
               /\ hass_data'[i].geocoding_cache.ttl_days \in 0..365
               /\ hass_data'[i].route_cache.ttl_days \in 0..365
       /\ hassOp'.op = "async_update_options"
            => \A i \in 1..Len(hass_data) :
                (hass_data[i].loaded /\ hass_data[i].entry_id = hassOp'.args[1])
                => /\ (/\ hass_data'[i].options[1] # hass_data[i].options[1]
                        /\ hass_data'[i].options[2] = hass_data[i].options[2])
                        => Retrievable(hass_data'[i].route_cache)
                            = Retrievable(hass_data[i].route_cache)
                   /\ (/\ hass_data'[i].options[2] # hass_data[i].options[2]
                        /\ hass_data'[i].options[1] = hass_data[i].options[1])
                        => Retrievable(hass_data'[i].geocoding_cache)
                            = Retrievable(hass_data[i].geocoding_cache)]_vars

\* An options update has changed the geocoding option only, on an entry
\* whose route cache holds a retrievable route
C22_Witness ==
    /\ hassOp.op = "async_update_options"
    /\ \E i \in 1..Len(hass_data) :
        /\ hass_data[i].loaded
        /\ hass_data[i].entry_id = hassOp.args[1]
        /\ hass_data[i].geocoding_cache.ttl_days # hassOp.args[2]
        /\ hass_data[i].route_cache.ttl_days = hassOp.args[3]
        /\ Retrievable(hass_data[i].route_cache) # {}

-----------------------------------------------------------------------------
(* The failures of plan_route *)

Failed == call.pc = "done" /\ call.cause # ""

\* The call failed before it had the origin's coordinates
FailedAtOrigin == Failed /\ call.origin_coords = None

\* C24 as stated: a failed plan_route call reaches the caller as
\* HomeAssistantError; when it failed at the origin it has changed neither
\* cache, and in every case it has not changed the route cache
C24_FailureChangesNothing ==
    Failed
    => /\ call.error = "HomeAssistantError"
       /\ FailedAtOrigin => call.evicted \cup call.stored = {}
       /\ "routes" \notin call.evicted \cup call.stored

FailureStoresNothing ==
    Failed
    => /\ call.error = "HomeAssistantError"
       /\ FailedAtOrigin => call.stored = {}
       /\ "routes" \notin call.stored

\* The entries the step removed from the named cache of the handler's entry
Removed(name) ==
    {key \in DOMAIN hass_data[1][name]._cache :
        key \notin DOMAIN hass_data'[1][name]._cache}

\* C24 amended: a failed plan_route call reaches the caller as
\* HomeAssistantError; when it failed at the origin it has stored nothing in
\* either cache, and in every case it has stored nothing in the route cache;
\* the entries a step of the handler removes are expired ones
C24_FailureStoresNothing ==
    [][/\ FailureStoresNothing'
       /\ (hassOp'.op \in {"handle_plan_route", "geocode_address"} /\ hass_data' # <<>>)
            => \A name \in {"geocoding_cache", "route_cache"} :
                \A key \in Removed(name) :
                    _is_expired(hass_data[1][name].ttl_days,
                                hass_data[1][name]._cache[key].timestamp)]_vars

\* The geocoder refused the connection for the origin after the call had
\* evicted the origin's expired coordinates
C24_Witness ==
    /\ FailedAtOrigin
    /\ call.cause = "CannotConnect"
    /\ call.error = "HomeAssistantError"
    /\ call.evicted = {"geocoding"}

-----------------------------------------------------------------------------
(* The cache methods on the event loop *)

\* The cache method handler t began last, applied as a whole to the
\* instance it began on
Whole(task) ==
    LET self == [ttl_days |-> task.snap.ttl_days, _cache |-> task.snap._cache] IN
    IF task.method = "get_coordinates"
    THEN GeocodingCache_get_coordinates(self, task.args[1])
    ELSE IF task.method = "set_coordinates"
    THEN GeocodingCache_set_coordinates(self, task.args[1], task.args[2])
    ELSE IF task.method = "clear" THEN clear
    ELSE PersistentCache_update_ttl(self, task.args[1])

\* Handler t returns from a cache method in this step
Returns(t) ==
    /\ tasks'[t] # tasks[t]
    /\ tasks[t].pc # "await"
    /\ ~tasks'[t].inside

\* C27: while a handler is inside a cache method no other handler takes a
\* step, and when the method returns the store, the TTL and the file are
\* what the whole method makes of the instance it began on: the cache sees
\* the methods of all handlers one after the other.
C27_WholeOperations ==
    [][\A t \in DOMAIN tasks :
        /\ tasks[t].inside => \A u \in DOMAIN tasks \ {t} : tasks'[u] = tasks[u]
        /\ Returns(t)
            => LET task == tasks'[t]
                   r == Whole(task)
               IN  /\ _cache' = r.cache
                   /\ ttl_days' = IF task.method = "update_ttl" THEN task.args[1]
                                  ELSE task.snap.ttl_days
                   /\ disk' = IF r.saves > 0
                              THEN _save_cache(r.cache, task.snap.disk, "ok")
                              ELSE task.snap.disk]_vars

\* A plan_route call is inside set_coordinates, between the assignment and
\* the save, while the other call awaits the geocoder and clear_cache has
\* run in between
C27_Witness ==
    /\ tasks # <<>>
    /\ tasks["plan_route_1"].pc = "await"
    /\ tasks["plan_route_2"].pc = "set_save"
    /\ tasks["plan_route_2"].inside
    /\ tasks["clear_cache"].pc = "done"
    /\ running = "plan_route_2"

-----------------------------------------------------------------------------
(* A failed save and the document on disk *)

-----------------------------------------------------------------------------
(* What get leaves alone *)

\* The key an operation on one entry addresses
KeyOf(op) ==
    IF op.op \in {"get_coordinates", "set_coordinates"}
    THEN _make_key(<<PyStr(lower(op.args[1][2]))>>)
    ELSE _make_key(op.args)

\* C32: a get for a key the store does not hold, or for an entry that is not
\* expired, changes neither the store nor the file; and every operation other
\* than set leaves the timestamp of every entry it keeps as it was, while set
\* leaves the timestamps of the entries under other keys.
C32_GetReadOnly ==
    [][/\ lastOp'.op \in {"get", "get_coordinates"}
            => LET key == KeyOf(lastOp') IN
               (\/ key \notin DOMAIN _cache
                \/ ~_is_expired(ttl_days, _cache[key].timestamp))
               => _cache' = _cache /\ disk' = disk
       /\ \A k \in DOMAIN _cache \cap DOMAIN _cache' :
            (lastOp'.op \in {"set", "set_coordinates"} => k # KeyOf(lastOp'))
            => _cache'[k].timestamp = _cache[k].timestamp]_vars

\* A get has returned an entry written at an earlier time, and the entry
\* still carries the time of its set
C32_Witness ==
    /\ lastOp.op = "get"
    /\ result # None
    /\ KeyOf(lastOp) \in DOMAIN _cache
    /\ KeyOf(lastOp) \in DOMAIN written
    /\ written[KeyOf(lastOp)].at < now
    /\ _cache[KeyOf(lastOp)].timestamp = isoformat(written[KeyOf(lastOp)].at)

-----------------------------------------------------------------------------
(* Two config entries and the two cache files *)

\* The document on disk is the store of the instance
OnDisk(self) == _load_cache(files[self.cache_path]) = self._cache

\* C35: while two entries are loaded, the geocoding and route documents on
\* disk equal the stores of the first loaded entry's instances, which serve
\* plan_route; and when an unload leaves an entry loaded, the instances of
\* the entry that serves from then on hold every entry that is on disk.
C35_DiskEqualsServing ==
    /\ Len(Loaded) = 2
        => OnDisk(Loaded[1].geocoding_cache) /\ OnDisk(Loaded[1].route_cache)
    /\ (hassOp.op = "async_unload_entry" /\ Loaded # <<>>)
        => \A name \in {"geocoding_cache", "route_cache"} :
            DOMAIN _load_cache(files[Loaded[1][name].cache_path])
                \subseteq DOMAIN Loaded[1][name]._cache

-----------------------------------------------------------------------------
(* Two plan_route calls for one address *)

\* C34: a plan_route call whose lookup finds no entry goes on to ask the
\* geocoder, whether or not another call is waiting for the same address;
\* every call the geocoder answers writes; and a write leaves under its key
\* the one entry with the value and the time of that write, whatever entry
\* an earlier call had put there.
C34_NoCoalescing ==
    [][\A t \in DOMAIN tasks :
        /\ (/\ tasks[t].pc = "get"
            /\ tasks'[t] # tasks[t]
            /\ ttl_days > 0
            /\ _make_key(<<PyStr(lower(Address(tasks[t])))>>) \notin DOMAIN _cache)
            => tasks'[t].pc = "await"
        /\ (tasks[t].pc = "await" /\ tasks'[t].pc \notin {"await", "done"})
            => tasks'[t].pc = "set"
        /\ (Returns(t) /\ tasks'[t].method = "set_coordinates" /\ ttl_days > 0)
            => LET task == tasks'[t]
                   key == _make_key(<<PyStr(lower(task.args[1]))>>)
               IN  /\ DOMAIN _cache' = DOMAIN task.snap._cache \cup {key}
                   /\ _cache'[key] = [value |-> list(task.args[2]),
                                      timestamp |-> isoformat(now)]
                   /\ \A k \in DOMAIN task.snap._cache \ {key} :
                        _cache'[k] = task.snap._cache[k]]_vars

\* A call has written the origin's coordinates over the entry the other
\* call wrote at time 0, at a time at which that entry was still fresh: both
\* calls had missed and asked the geocoder
C34_Witness ==
    /\ DOMAIN tasks = Calls
    /\ \E t \in Calls :
        LET task == tasks[t]
            key == _make_key(<<PyStr(lower(PlanInputs_origin))>>)
        IN  /\ task.method = "set_coordinates"
            /\ ~task.inside
            /\ task.args[1] = PlanInputs_origin
            /\ key \in DOMAIN task.snap._cache
            /\ task.snap._cache[key].timestamp = isoformat(0)
            /\ now > 0
            /\ now < timedelta(ttl_days)
            /\ _cache[key].timestamp = isoformat(now)
            /\ DOMAIN _cache = {key}

-----------------------------------------------------------------------------
(* A write-back after the cache was disabled, and after it was cleared *)

LegAddress(leg) == IF leg = 1 THEN call.origin ELSE call.destination

\* C33: an options update that sets a TTL to 0 leaves that cache empty, and
\* a cache that is empty with TTL 0 stays empty through every step that
\* leaves its TTL at 0, the write-back of a plan_route call included; while
\* TTL > 0, a call the geocoder answers stores the coordinates, also when
\* the cache was cleared while the call awaited.
C33_DisabledStaysEmpty ==
    [][/\ \A i \in 1..Len(hass_data) :
            \A name \in {"geocoding_cache", "route_cache"} :
                (i <= Len(hass_data') /\ hass_data'[i].entry_id = hass_data[i].entry_id)
                => /\ (/\ hassOp'.op = "async_update_options"
                        /\ hassOp'.args[1] = hass_data[i].entry_id
                        /\ hass_data'[i][name].ttl_days = 0)
                        => hass_data'[i][name]._cache = EmptyStore
                   /\ (/\ hass_data[i][name].ttl_days = 0
                        /\ hass_data[i][name]._cache = EmptyStore
                        /\ hass_data'[i][name].ttl_days = 0)
                        => hass_data'[i][name]._cache = EmptyStore
       /\ (/\ hassOp'.op = "geocode_address"
           /\ Awaiting
           /\ hass_data[1].geocoding_cache.ttl_days > 0
           /\ hass_data' # <<>>
           /\ IF Leg = 1 THEN call'.origin_coords # None ELSE call'.dest_coords # None)
            => /\ Leg \in call'.legs_stored
               /\ _make_key(<<PyStr(lower(LegAddress(Leg)))>>)
                    \in DOMAIN hass_data'[1].geocoding_cache._cache]_vars

\* One plan_route call: the cache was cleared while it awaited the origin's
\* coordinates and it stored them afterwards; the cache was disabled while
\* it awaited the destination's and it stored nothing; the cache is empty
C33_Witness ==
    /\ hassOp.op = "geocode_address"
    /\ hass_data # <<>>
    /\ <<1, "clear">> \in call.meanwhile
    /\ 1 \in call.legs_stored
    /\ <<2, "disable">> \in call.meanwhile
    /\ 2 \notin call.legs_stored
    /\ call.dest_coords # None
    /\ hass_data[1].geocoding_cache.ttl_days = 0
    /\ hass_data[1].geocoding_cache._cache = EmptyStore

====
